---- MODULE Spec2Model ----
(***************************************************************************)
(* MyPegawaiStatus (src/bot1.py): a Telegram conversation bot that walks   *)
(* an operator through role selection, admin login, schedule entry,        *)
(* schedule deletion and staff queries, writing rows to a Google Sheet and *)
(* events to Google Calendar.                                              *)
(*                                                                         *)
(* Text is modelled by TLA+ strings; Len, \o and SubSeq give the           *)
(* character-level operations the validation code performs.                *)
(***************************************************************************)
EXTENDS Integers, Sequences, FiniteSets, TLC

VARIABLES
  conv,       \* ConversationHandler's state of each session ("END": no conversation)
  user_data,  \* context.user_data of each session: a function from keys to values
  store,      \* the data rows of worksheet "Sheet1" below its header row, in sheet order
  calendar,   \* the events held by the calendar service, in insertion order
  today,      \* datetime.now().date()
  last,       \* the update handled last: handler run, replies sent, adapter calls made
  event_loop  \* webhook mode: the process_update coroutines of _EVENT_LOOP that wait in an await

vars == <<conv, user_data, store, calendar, today, last, event_loop>>

----------------------------------------------------------------------------
(* Strings *)

Ch(s, i) == SubSeq(s, i, i)

DigitChars == "0123456789"

IsDigit(c) == \E i \in 1..10 : Ch(DigitChars, i) = c

DigitVal(c) == (CHOOSE i \in 1..10 : Ch(DigitChars, i) = c) - 1

AllDigits(s) == \A i \in 1..Len(s) : IsDigit(Ch(s, i))

RECURSIVE ToNat(_)
ToNat(s) ==
  IF Len(s) = 0 THEN 0
  ELSE 10 * ToNat(SubSeq(s, 1, Len(s) - 1)) + DigitVal(Ch(s, Len(s)))

RECURSIVE NatToStr(_)
NatToStr(n) ==
  IF n < 10 THEN Ch(DigitChars, n + 1)
  ELSE NatToStr(n \div 10) \o Ch(DigitChars, (n % 10) + 1)

\* "%02d"
Pad2(n) == IF n < 10 THEN "0" \o NatToStr(n) ELSE NatToStr(n)

\* "%04d"
Pad4(n) ==
  IF n < 10 THEN "000" \o NatToStr(n)
  ELSE IF n < 100 THEN "00" \o NatToStr(n)
  ELSE IF n < 1000 THEN "0" \o NatToStr(n)
  ELSE NatToStr(n)

IsSpace(c) == c \in {" ", "\t", "\n", "\r"}

RECURSIVE LStrip(_)
LStrip(s) ==
  IF Len(s) > 0 /\ IsSpace(Ch(s, 1)) THEN LStrip(SubSeq(s, 2, Len(s))) ELSE s

RECURSIVE RStrip(_)
RStrip(s) ==
  IF Len(s) > 0 /\ IsSpace(Ch(s, Len(s))) THEN RStrip(SubSeq(s, 1, Len(s) - 1)) ELSE s

\* str.strip()
Strip(s) == RStrip(LStrip(s))

UpperCh(c) ==
  LET lower == "abcdefghijklmnopqrstuvwxyz"
      upper == "ABCDEFGHIJKLMNOPQRSTUVWXYZ"
  IN IF \E i \in 1..26 : Ch(lower, i) = c
     THEN Ch(upper, CHOOSE i \in 1..26 : Ch(lower, i) = c)
     ELSE c

RECURSIVE Upper(_)
\* str.upper()
Upper(s) ==
  IF Len(s) = 0 THEN ""
  ELSE Upper(SubSeq(s, 1, Len(s) - 1)) \o UpperCh(Ch(s, Len(s)))

\* sub in s
Contains(s, sub) ==
  \E i \in 1..(Len(s) - Len(sub) + 1) : SubSeq(s, i, i + Len(sub) - 1) = sub

\* the positions of character c in s
Positions(s, c) == {i \in 1..Len(s) : Ch(s, i) = c}

Min(S) == CHOOSE x \in S : \A y \in S : x <= y

RECURSIVE SplitOn(_, _)
\* s.split(c): the pieces of s between the occurrences of character c
SplitOn(s, c) ==
  IF Positions(s, c) = {} THEN <<s>>
  ELSE LET i == Min(Positions(s, c))
       IN <<SubSeq(s, 1, i - 1)>> \o SplitOn(SubSeq(s, i + 1, Len(s)), c)

RECURSIVE Join(_, _)
\* sep.join(parts)
Join(parts, sep) ==
  IF Len(parts) = 0 THEN ""
  ELSE IF Len(parts) = 1 THEN parts[1]
  ELSE parts[1] \o sep \o Join(Tail(parts), sep)

Range(f) == {f[x] : x \in DOMAIN f}

----------------------------------------------------------------------------
(* Dates and times: datetime.strptime / strftime with DATE_FMT and TIME_FMT *)

IsLeap(y) == (y % 4 = 0 /\ y % 100 # 0) \/ y % 400 = 0

DaysInMonth(y, m) ==
  IF m = 2 THEN (IF IsLeap(y) THEN 29 ELSE 28)
  ELSE IF m \in {4, 6, 9, 11} THEN 30 ELSE 31

\* date.toordinal(): days since 31/12/0000 in the proleptic Gregorian calendar
DaysBeforeYear(y) ==
  LET p == y - 1 IN 365 * p + (p \div 4) - (p \div 100) + (p \div 400)

RECURSIVE DaysBeforeMonth(_, _)
DaysBeforeMonth(y, m) ==
  IF m = 1 THEN 0 ELSE DaysBeforeMonth(y, m - 1) + DaysInMonth(y, m - 1)

ToOrdinal(d) == DaysBeforeYear(d.y) + DaysBeforeMonth(d.y, d.m) + d.d

\* a faulty weekday: 0 = Sunday .. 6 = Saturday
Weekday_sunday_first(d) == ToOrdinal(d) % 7

\* date.weekday(): 0 = Monday .. 6 = Sunday (ordinal 1, 01/01/0001, is a Monday)
Weekday(d) == (ToOrdinal(d) + 6) % 7

DateLess(a, b) == ToOrdinal(a) < ToOrdinal(b)

NextDay(d) ==
  IF d.d < DaysInMonth(d.y, d.m) THEN [d EXCEPT !.d = d.d + 1]
  ELSE IF d.m < 12 THEN [y |-> d.y, m |-> d.m + 1, d |-> 1]
  ELSE [y |-> d.y + 1, m |-> 1, d |-> 1]

NoDate == [y |-> 0, m |-> 0, d |-> 0]

\* _strptime's pattern for %d: 3[0-1]|[1-2]\d|0[1-9]|[1-9]| [1-9]
MatchesDay(s) ==
  \/ Len(s) = 2 /\ Ch(s, 1) = "3" /\ Ch(s, 2) \in {"0", "1"}
  \/ Len(s) = 2 /\ Ch(s, 1) \in {"1", "2"} /\ IsDigit(Ch(s, 2))
  \/ Len(s) = 2 /\ Ch(s, 1) = "0" /\ IsDigit(Ch(s, 2)) /\ Ch(s, 2) # "0"
  \/ Len(s) = 1 /\ IsDigit(s) /\ s # "0"
  \/ Len(s) = 2 /\ Ch(s, 1) = " " /\ IsDigit(Ch(s, 2)) /\ Ch(s, 2) # "0"

\* _strptime's pattern for %m: 1[0-2]|0[1-9]|[1-9]
MatchesMonth(s) ==
  \/ Len(s) = 2 /\ Ch(s, 1) = "1" /\ Ch(s, 2) \in {"0", "1", "2"}
  \/ Len(s) = 2 /\ Ch(s, 1) = "0" /\ IsDigit(Ch(s, 2)) /\ Ch(s, 2) # "0"
  \/ Len(s) = 1 /\ IsDigit(s) /\ s # "0"

\* _strptime's pattern for %Y: \d\d\d\d
MatchesYear(s) == Len(s) = 4 /\ AllDigits(s)

\* datetime.strptime(s, "%d/%m/%Y").date(), NoDate where it raises ValueError:
\* the three fields must take the whole of s, and the day must exist
\* (datetime's constructor refuses year 0 and a day beyond the month's end).
StrptimeDate(s) ==
  LET p == SplitOn(s, "/") IN
  IF Len(p) # 3 THEN NoDate
  ELSE IF ~(MatchesDay(p[1]) /\ MatchesMonth(p[2]) /\ MatchesYear(p[3])) THEN NoDate
  ELSE LET y == ToNat(p[3])
           m == ToNat(p[2])
           d == ToNat(LStrip(p[1]))
       IN IF y >= 1 /\ d <= DaysInMonth(y, m) THEN [y |-> y, m |-> m, d |-> d]
          ELSE NoDate

\* d.strftime("%d/%m/%Y"). %Y is handed to the C library: glibc prints the
\* year without padding (01/01/999), other platforms print four digits;
\* padYear tells which the build does.
StrftimeDate(d, padYear) ==
  Pad2(d.d) \o "/" \o Pad2(d.m) \o "/" \o (IF padYear THEN Pad4(d.y) ELSE NatToStr(d.y))

\* the builds: whether strftime pads %Y to four digits
PadYearBuilds == BOOLEAN

NoTime == [h |-> 0 - 1, mi |-> 0 - 1]

\* a faulty range check: hour 24 and minute 60 pass
StrptimeTime_inclusive(s) ==
  LET p == SplitOn(s, ":") IN
  IF Len(p) # 2 THEN NoTime
  ELSE LET hOk == Len(p[1]) \in {1, 2} /\ AllDigits(p[1]) /\ ToNat(p[1]) <= 24
           mOk == Len(p[2]) \in {1, 2} /\ AllDigits(p[2]) /\ ToNat(p[2]) <= 60
       IN IF hOk /\ mOk THEN [h |-> ToNat(p[1]), mi |-> ToNat(p[2])] ELSE NoTime

\* _strptime's pattern for %H: 2[0-3]|[0-1]\d|\d, for %M: [0-5]\d|\d,
\* with ":" between and nothing left over
StrptimeTime(s) ==
  LET p == SplitOn(s, ":") IN
  IF Len(p) # 2 THEN NoTime
  ELSE LET hOk == /\ Len(p[1]) \in {1, 2}
                  /\ AllDigits(p[1])
                  /\ ToNat(p[1]) <= 23
           mOk == /\ Len(p[2]) \in {1, 2}
                  /\ AllDigits(p[2])
                  /\ ToNat(p[2]) <= 59
       IN IF hOk /\ mOk THEN [h |-> ToNat(p[1]), mi |-> ToNat(p[2])] ELSE NoTime

\* t.strftime("%H:%M")
StrftimeTime(t) == Pad2(t.h) \o ":" \o Pad2(t.mi)

\* re.fullmatch(r"\d{2}:\d{2}", s)
FullMatchHHMM(s) ==
  /\ Len(s) = 5
  /\ Ch(s, 3) = ":"
  /\ \A i \in {1, 2, 4, 5} : IsDigit(Ch(s, i))

\* None
None == "<None>"

parse_date_ddmmyyyy(s, padYear) ==
  LET d == StrptimeDate(Strip(s)) IN
  IF d = NoDate THEN None ELSE StrftimeDate(d, padYear)

\* a faulty parser: the pattern alone decides, the ranges are not checked
parse_time_hhmm_pattern_only(s) ==
  IF ~FullMatchHHMM(Strip(s)) THEN None ELSE Strip(s)

parse_time_hhmm(s) ==
  IF ~FullMatchHHMM(Strip(s)) THEN None
  ELSE LET t == StrptimeTime(Strip(s)) IN
       IF t = NoTime THEN None ELSE StrftimeTime(t)

\* a faulty validation: the day of the week is not looked at
validate_not_past(date_str, now, padYear) ==
  LET d == StrptimeDate(date_str) IN
  IF d = NoDate THEN None
  ELSE IF DateLess(d, now) THEN None
  ELSE StrftimeDate(d, padYear)

validate_not_past_and_not_weekend(date_str, now, padYear) ==
  LET d == StrptimeDate(date_str) IN
  IF d = NoDate THEN None
  ELSE IF DateLess(d, now) THEN None
  ELSE IF Weekday(d) >= 5 THEN None
  ELSE StrftimeDate(d, padYear)

----------------------------------------------------------------------------
(* Configuration *)

OFFICERS ==
  << <<"Pegawai Daerah", "DO">>,
     <<"Penolong Pegawai Daerah (Pentadbiran)", "ADO_PENTADBIRAN">>,
     <<"Penolong Pegawai Daerah (Pembangunan)", "ADO_PEMBANGUNAN">> >>

\* os.getenv: the environment of the deployment; "" stands for an unset variable
Env ==
  [ADMIN1_NAME |-> "siti", ADMIN1_PASS |-> "rahsia1",
   ADMIN2_NAME |-> "", ADMIN2_PASS |-> "",
   ADMIN3_NAME |-> "ali", ADMIN3_PASS |-> "",
   CAL_DO |-> "do@cal", CAL_ADO_PENTADBIRAN |-> "", CAL_ADO_PEMBANGUNAN |-> "pemb@cal"]

\* _admins: a pair is kept when both its name and its password are set
ADMIN_CREDENTIALS ==
  LET pairs == { <<Env.ADMIN1_NAME, Env.ADMIN1_PASS>>,
                 <<Env.ADMIN2_NAME, Env.ADMIN2_PASS>>,
                 <<Env.ADMIN3_NAME, Env.ADMIN3_PASS>> }
      kept == {p \in pairs : p[1] # "" /\ p[2] # ""}
  IN [n \in {p[1] : p \in kept} |-> (CHOOSE p \in kept : p[1] = n)[2]]

\* sheet.CALENDAR_IDS is empty, so the environment's mapping is used
CALENDAR_IDS ==
  [DO |-> Env.CAL_DO,
   ADO_PENTADBIRAN |-> Env.CAL_ADO_PENTADBIRAN,
   ADO_PEMBANGUNAN |-> Env.CAL_ADO_PEMBANGUNAN]

get_calendar_id_for_officer(officer_code) ==
  IF officer_code \in DOMAIN CALENDAR_IDS /\ CALENDAR_IDS[officer_code] # ""
  THEN CALENDAR_IDS[officer_code]
  ELSE None

code_to_label(code) ==
  IF \E i \in 1..Len(OFFICERS) : OFFICERS[i][2] = code
  THEN OFFICERS[Min({i \in 1..Len(OFFICERS) : OFFICERS[i][2] = code})][1]
  ELSE code

\* a faulty lookup: a label that is not an officer's gives the first code
officer_label_to_code_default(label) ==
  IF \E i \in 1..Len(OFFICERS) : OFFICERS[i][1] = label
  THEN OFFICERS[Min({i \in 1..Len(OFFICERS) : OFFICERS[i][1] = label})][2]
  ELSE OFFICERS[1][2]

officer_label_to_code(label) ==
  IF \E i \in 1..Len(OFFICERS) : OFFICERS[i][1] = label
  THEN OFFICERS[Min({i \in 1..Len(OFFICERS) : OFFICERS[i][1] = label})][2]
  ELSE None

----------------------------------------------------------------------------
(* Python values read back from the sheet: a cell is text, and gspread's    *)
(* get_all_records() numericises it (int(value), else float(value), else   *)
(* the text itself). A value is its type and its str().                     *)

PyStr(s) == [t |-> "str", v |-> s]

PyInt(s) == [t |-> "int", v |-> s]

\* int(value) succeeds: optional sign and decimal digits, blanks around allowed
IsIntLiteral(s) ==
  LET u == Strip(s)
      body == IF Len(u) > 0 /\ Ch(u, 1) \in {"+", "-"} THEN SubSeq(u, 2, Len(u)) ELSE u
  IN Len(body) > 0 /\ AllDigits(body)

\* str(int(value))
IntRepr(s) ==
  LET u == Strip(s)
      neg == Len(u) > 0 /\ Ch(u, 1) = "-"
      body == IF Len(u) > 0 /\ Ch(u, 1) \in {"+", "-"} THEN SubSeq(u, 2, Len(u)) ELSE u
      n == ToNat(body)
  IN IF neg /\ n # 0 THEN "-" \o NatToStr(n) ELSE NatToStr(n)

\* gspread.utils.numericise with its defaults. The texts of this model hold
\* no ".", no exponent and no "inf"/"nan", so float(value) succeeds only
\* where int(value) does.
numericise(value) ==
  IF Contains(value, "_") THEN PyStr(value)
  ELSE IF IsIntLiteral(value) THEN PyInt(IntRepr(value))
  ELSE PyStr(value)

\* str(x), as an f-string prints x
Fmt(x) == x.v

\* bool(x)
Truthy(x) == IF x.t = "int" THEN x.v # "0" ELSE x.v # ""

\* d.get(k, default)
DictGet(d, k, default) == IF k \in DOMAIN d THEN d[k] ELSE default

----------------------------------------------------------------------------
(* Google Sheets helpers *)

\* the header row _get_ws writes when it creates "Sheet1"
Headers ==
  <<"date", "officer", "lokasi", "urusan rasmi", "status keahlian",
    "start_time", "end_time", "updated_by", "updated_at">>

\* datetime.now().strftime("%Y-%m-%d %H:%M:%S"); the time of day is not modelled
Timestamp(now) ==
  Pad4(now.y) \o "-" \o Pad2(now.m) \o "-" \o Pad2(now.d) \o " 00:00:00"

\* a faulty append: the two time cells are filled whatever the caller passes
save_status_times_filled(sheet, date_str, officer_code, lokasi, urusan_rasmi, status_keahlian, start_time, end_time, updated_by, now) ==
  Append(sheet, <<date_str, officer_code, lokasi, urusan_rasmi, status_keahlian,
                  "00:00", "23:59", updated_by, Timestamp(now)>>)

\* a faulty append: the row is lost and the call returns as if it were written
save_status_dropped(sheet, date_str, officer_code, lokasi, urusan_rasmi, status_keahlian, start_time, end_time, updated_by, now) ==
  sheet

\* the sheet after save_status: ws.append_row of the nine cells
save_status(sheet, date_str, officer_code, lokasi, urusan_rasmi, status_keahlian, start_time, end_time, updated_by, now) ==
  Append(sheet, <<date_str, officer_code, lokasi, urusan_rasmi, status_keahlian,
                  start_time, end_time, updated_by, Timestamp(now)>>)

\* ws.get_all_records(): one dict per data row, keyed by the header row
get_all_records(sheet) ==
  [i \in 1..Len(sheet) |->
     [k \in Range(Headers) |->
        numericise(sheet[i][CHOOSE j \in 1..Len(Headers) : Headers[j] = k])]]

\* query_status: date_str and officer_code are str
query_status(sheet, date_str, officer_code) ==
  LET Match(r) == /\ DictGet(r, "date", PyStr(None)) = PyStr(date_str)
                  /\ DictGet(r, "officer", PyStr(None)) = PyStr(officer_code)
  IN SelectSeq(get_all_records(sheet), Match)

\* a faulty match: the description is not compared
RowMatches_date_officer_only(row, date_str, officer_code, urusan_rasmi) ==
  /\ Len(row) >= Len(Headers)
  /\ PyStr(row[1]) = PyStr(date_str)
  /\ PyStr(row[2]) = PyStr(officer_code)

\* the rows delete_status removes: ws.get_all_values() gives text cells, and
\* urusan_rasmi is the Python value the caller passes
RowMatches(row, date_str, officer_code, urusan_rasmi) ==
  /\ Len(row) >= Len(Headers)
  /\ PyStr(row[1]) = PyStr(date_str)
  /\ PyStr(row[2]) = PyStr(officer_code)
  /\ PyStr(row[4]) = urusan_rasmi

\* a faulty delete: only the first matching row is removed
delete_status_first_only(sheet, date_str, officer_code, urusan_rasmi) ==
  LET hits == {i \in 1..Len(sheet) : RowMatches(sheet[i], date_str, officer_code, urusan_rasmi)}
  IN IF hits = {} THEN sheet
     ELSE SubSeq(sheet, 1, Min(hits) - 1) \o SubSeq(sheet, Min(hits) + 1, Len(sheet))

\* the sheet after delete_status
delete_status(sheet, date_str, officer_code, urusan_rasmi) ==
  LET Keep(row) == ~RowMatches(row, date_str, officer_code, urusan_rasmi)
  IN SelectSeq(sheet, Keep)

\* delete_status's return value: len(indices_to_delete) > 0
delete_status_result(sheet, date_str, officer_code, urusan_rasmi) ==
  \E i \in 1..Len(sheet) : RowMatches(sheet[i], date_str, officer_code, urusan_rasmi)

----------------------------------------------------------------------------
(* Google Calendar helpers *)

\* the event body of create_calendar_event_for_meeting
meeting_event(cal_id, date_str, start_time, end_time, officer_code, lokasi, urusan_rasmi, status_keahlian) ==
  [cal |-> cal_id,
   summary |-> "KENINGAU - " \o code_to_label(officer_code),
   location |-> lokasi,
   description |-> "Urusan Rasmi: " \o urusan_rasmi \o "\nStatus Keahlian: "
                     \o status_keahlian \o "\nLokasi: " \o lokasi,
   allDay |-> FALSE,
   day |-> StrptimeDate(date_str),
   start |-> start_time,
   end |-> end_time]

\* the event body of create_calendar_event_for_luar_daerah
luar_daerah_event(cal_id, date_str, officer_code, urusan_rasmi, status_keahlian) ==
  [cal |-> cal_id,
   summary |-> "LUAR DAERAH - " \o code_to_label(officer_code),
   location |-> "LUAR DAERAH",
   description |-> "Urusan Rasmi: " \o urusan_rasmi \o "\nStatus Keahlian: "
                     \o status_keahlian \o "\nLokasi: LUAR DAERAH",
   allDay |-> TRUE,
   day |-> StrptimeDate(date_str),
   start |-> "",
   end |-> ""]

\* create_calendar_event_for_meeting's return value; serviceOk: the calendar
\* service answers the insert (any HttpError or other exception gives False)
create_calendar_event_for_meeting_result(date_str, start_time, end_time, officer_code, serviceOk) ==
  /\ get_calendar_id_for_officer(officer_code) # None
  /\ serviceOk
  /\ StrptimeDate(date_str) # NoDate
  /\ StrptimeTime(start_time) # NoTime
  /\ StrptimeTime(end_time) # NoTime

\* a faulty creation: the event is inserted also when the creation reports failure
create_calendar_event_for_meeting_forced(events, date_str, start_time, end_time, officer_code, lokasi, urusan_rasmi, status_keahlian, serviceOk) ==
  Append(events, meeting_event(get_calendar_id_for_officer(officer_code), date_str,
           start_time, end_time, officer_code, lokasi, urusan_rasmi, status_keahlian))

\* the calendar after create_calendar_event_for_meeting
create_calendar_event_for_meeting(events, date_str, start_time, end_time, officer_code, lokasi, urusan_rasmi, status_keahlian, serviceOk) ==
  IF create_calendar_event_for_meeting_result(date_str, start_time, end_time, officer_code, serviceOk)
  THEN Append(events, meeting_event(get_calendar_id_for_officer(officer_code), date_str,
                start_time, end_time, officer_code, lokasi, urusan_rasmi, status_keahlian))
  ELSE events

\* create_calendar_event_for_luar_daerah's return value
create_calendar_event_for_luar_daerah_result(date_str, officer_code, serviceOk) ==
  /\ get_calendar_id_for_officer(officer_code) # None
  /\ serviceOk
  /\ StrptimeDate(date_str) # NoDate

\* the calendar after create_calendar_event_for_luar_daerah
create_calendar_event_for_luar_daerah(events, date_str, officer_code, urusan_rasmi, status_keahlian, serviceOk) ==
  IF create_calendar_event_for_luar_daerah_result(date_str, officer_code, serviceOk)
  THEN Append(events, luar_daerah_event(get_calendar_id_for_officer(officer_code), date_str,
                officer_code, urusan_rasmi, status_keahlian))
  ELSE events

\* the events delete_calendar_events lists: those of the officer's calendar on the day
ListedEvents(events, date_str, officer_code) ==
  {i \in 1..Len(events) :
     /\ events[i].cal = get_calendar_id_for_officer(officer_code)
     /\ events[i].day = StrptimeDate(date_str)}

\* the listed events whose description holds urusan_rasmi
MatchingEvents(events, date_str, officer_code, urusan_rasmi) ==
  {i \in ListedEvents(events, date_str, officer_code) :
     Contains(events[i].description, Fmt(urusan_rasmi))}

\* delete_calendar_events reaches its loop: a calendar id, the service, a date
\* that parses; "x in description" raises TypeError unless x is a str
delete_calendar_events_runs(events, date_str, officer_code, urusan_rasmi, serviceOk) ==
  /\ get_calendar_id_for_officer(officer_code) # None
  /\ serviceOk
  /\ StrptimeDate(date_str) # NoDate
  /\ (ListedEvents(events, date_str, officer_code) # {} => urusan_rasmi.t = "str")

\* the events delete_calendar_events may remove; each removal can fail by itself
DeletableSets(events, date_str, officer_code, urusan_rasmi, serviceOk) ==
  IF delete_calendar_events_runs(events, date_str, officer_code, urusan_rasmi, serviceOk)
  THEN SUBSET MatchingEvents(events, date_str, officer_code, urusan_rasmi)
  ELSE {{}}

\* the calendar after delete_calendar_events removed the events at positions gone
delete_calendar_events(events, gone) ==
  LET keep == {i \in 1..Len(events) : i \notin gone}
      F[i \in 0..Len(events)] ==
        IF i = 0 THEN <<>>
        ELSE IF i \in keep THEN Append(F[i - 1], events[i]) ELSE F[i - 1]
  IN F[Len(events)]

\* a faulty return value: True whether or not an event was removed
delete_calendar_events_result_always(gone) == TRUE

\* delete_calendar_events's return value: deleted_count > 0
delete_calendar_events_result(gone) == gone # {}

----------------------------------------------------------------------------
(* Bounds of the model *)

\* data rows the sheet holds at most after a submission of the dialogue
MaxRows == 1

\* events the calendar holds at most after a creation of the dialogue
MaxEvents == 1

----------------------------------------------------------------------------
(* Replies and keyboards *)

NoMarkup == [kind |-> "none", labels |-> <<>>]

ReplyKeyboardRemove == [kind |-> "remove", labels |-> <<>>]

ReplyKeyboardMarkup(labels) == [kind |-> "keyboard", labels |-> labels]

Msg(text, markup) == [text |-> text, markup |-> markup]

officer_keyboard == ReplyKeyboardMarkup([i \in 1..Len(OFFICERS) |-> OFFICERS[i][1]])

officer_keyboard_simple == ReplyKeyboardMarkup([i \in 1..Len(OFFICERS) |-> OFFICERS[i][1]])

post_check_keyboard ==
  ReplyKeyboardMarkup(<<"Semak Pegawai Lain", "Ubah Tarikh Semakan", "Semakan Tamat">>)

yes_no_keyboard == ReplyKeyboardMarkup(<<"YA", "TIDAK">>)

attendance_keyboard == ReplyKeyboardMarkup(<<"KENINGAU", "LUAR DAERAH">>)

membership_status_keyboard ==
  ReplyKeyboardMarkup(<<"Pengerusi", "Ahli Biasa", "Perasmi", "Jemputan">>)

role_keyboard == ReplyKeyboardMarkup(<<"Kakitangan Admin", "Kakitangan Biasa">>)

admin_main_keyboard == ReplyKeyboardMarkup(<<"Kemaskini Jadual", "Padam Jadual", "Selesai">>)

MSG_DATE_FORMAT == "Tarikh tidak sah. Sila gunakan format DD/MM/YYYY."

MSG_DATE_RETRY == "Tarikh tidak sah. Sila cuba lagi dengan format DD/MM/YYYY."

MSG_ADMIN_PAST ==
  "Tarikh yang dimasukkan tidak sah! Sila masukkan tarikh pada hari ini/akan datang (DD/MM/YYYY):"

\* the en dash of the source's text (Isnin to Jumaat) is written "-" here and below
MSG_ADMIN_WEEKEND == "Sila pilih tarikh bekerja (Isnin-Jumaat)."

MSG_STAFF_PAST ==
  "Tarikh telah berlalu. Sila pilih tarikh hari ini atau tarikh pada masa hadapan."

MSG_STAFF_WEEKEND ==
  "Tarikh jatuh pada hujung minggu. Sila pilih hari bekerja (Isnin-Jumaat)."

MSG_WRONG_PASSWORD == "Kata laluan salah. Sila /start semula."

MSG_LOGIN_OK == "Log masuk berjaya! Sila pilih tindakan:"

MSG_START_TIME_FORMAT == "Format masa tidak sah. Gunakan HH:MM (cth 09:00)."

MSG_END_TIME_FORMAT == "Format masa tidak sah. Gunakan HH:MM (cth 17:00)."

MSG_NO_RECORD == "Tiada rekod untuk tarikh tersebut."

MSG_CANCELLED == "Sesi Dibatalkan."

\* _prompt_admin_continue
prompt_admin_continue ==
  Msg("Adakah anda ingin meneruskan kemaskini untuk tarikh atau pegawai lain?", yes_no_keyboard)

----------------------------------------------------------------------------
(* Session variables and the outcome of a handler *)

\* an empty dict
EmptyDict == [k \in {} |-> ""]

\* d[k] = v
Put(d, k, v) == [x \in (DOMAIN d) \cup {k} |-> IF x = k THEN v ELSE d[x]]

\* d.pop(k, None)
Pop(d, k) == [x \in (DOMAIN d) \ {k} |-> d[x]]

Has(d, k) == k \in DOMAIN d

\* d.get(k, default) for a dict of session variables
Get(d, k, default) == IF k \in DOMAIN d THEN d[k] ELSE default

\* an adapter call made by a handler, with what it returned
Call(op, args, ok) == [op |-> op, args |-> args, ok |-> ok]

\* the handler returned: ConversationHandler records the state it returned
Finish(s, handler, state, ud, replies, calls) ==
  /\ conv' = [conv EXCEPT ![s] = state]
  /\ user_data' = [user_data EXCEPT ![s] = ud]
  /\ last' = [sess |-> s, handler |-> handler, replies |-> replies,
              calls |-> calls, raised |-> FALSE]
  /\ event_loop' = event_loop

\* the handler raised: the exception leaves the handler, the conversation
\* state is not updated, what the handler had put in user_data stays
Raise(s, handler, ud, replies, calls) ==
  /\ conv' = conv
  /\ user_data' = [user_data EXCEPT ![s] = ud]
  /\ last' = [sess |-> s, handler |-> handler, replies |-> replies,
              calls |-> calls, raised |-> TRUE]
  /\ event_loop' = event_loop

----------------------------------------------------------------------------
(* Handlers. Application.process_update gives an update to the first        *)
(* handler of the group that accepts it: CommandHandler("cancel", cancel),  *)
(* registered first, then the ConversationHandler (entry point /start with  *)
(* allow_reentry, then the handler of the session's state).                 *)

start(s) ==
  /\ Finish(s, "start", "CHOOSE_ROLE", user_data[s],
            <<Msg("Selamat datang ke *MyPegawaiStatus!*", role_keyboard)>>, <<>>)
  /\ UNCHANGED <<store, calendar, today>>

\* a faulty /cancel: it clears the session variables of every session
cancel_clears_all(s) ==
  /\ conv' = conv
  /\ user_data' = [x \in DOMAIN user_data |-> EmptyDict]
  /\ last' = [sess |-> s, handler |-> "cancel",
              replies |-> <<Msg(MSG_CANCELLED, ReplyKeyboardRemove)>>,
              calls |-> <<>>, raised |-> FALSE]
  /\ UNCHANGED <<store, calendar, today, event_loop>>

\* /cancel is taken by the application-level CommandHandler, whose return
\* value nothing reads: the ConversationHandler does not see the update
cancel(s) ==
  /\ conv' = conv
  /\ user_data' = [user_data EXCEPT ![s] = EmptyDict]
  /\ last' = [sess |-> s, handler |-> "cancel",
              replies |-> <<Msg(MSG_CANCELLED, ReplyKeyboardRemove)>>,
              calls |-> <<>>, raised |-> FALSE]
  /\ UNCHANGED <<store, calendar, today, event_loop>>

\* a faulty role selection: the role is set without context.user_data.clear()
choose_role_keeps_session(s, text) ==
  /\ conv[s] = "CHOOSE_ROLE"
  /\ LET role_label == Strip(text) IN
     IF role_label = "Kakitangan Admin"
     THEN Finish(s, "choose_role", "ADMIN_USERNAME", Put(user_data[s], "role", "admin"),
                 <<Msg("Sila masukkan nama pengguna (username) anda:", ReplyKeyboardRemove)>>, <<>>)
     ELSE IF role_label = "Kakitangan Biasa"
     THEN Finish(s, "choose_role", "STAFF_DATE", Put(user_data[s], "role", "staff"),
                 <<Msg("Sila masukkan tarikh pilihan (DD/MM/YYYY):", ReplyKeyboardRemove)>>, <<>>)
     ELSE Finish(s, "choose_role", "CHOOSE_ROLE", user_data[s],
                 <<Msg("Pilihan tidak dikenali. Sila pilih daripada papan kekunci.", NoMarkup)>>, <<>>)
  /\ UNCHANGED <<store, calendar, today>>

choose_role(s, text) ==
  /\ conv[s] = "CHOOSE_ROLE"
  /\ LET role_label == Strip(text) IN
     IF role_label = "Kakitangan Admin"
     THEN Finish(s, "choose_role", "ADMIN_USERNAME", Put(EmptyDict, "role", "admin"),
                 <<Msg("Sila masukkan nama pengguna (username) anda:", ReplyKeyboardRemove)>>, <<>>)
     ELSE IF role_label = "Kakitangan Biasa"
     THEN Finish(s, "choose_role", "STAFF_DATE", Put(EmptyDict, "role", "staff"),
                 <<Msg("Sila masukkan tarikh pilihan (DD/MM/YYYY):", ReplyKeyboardRemove)>>, <<>>)
     ELSE Finish(s, "choose_role", "CHOOSE_ROLE", EmptyDict,
                 <<Msg("Pilihan tidak dikenali. Sila pilih daripada papan kekunci.", NoMarkup)>>, <<>>)
  /\ UNCHANGED <<store, calendar, today>>

\* a faulty username step: a name that is not configured is refused at once
admin_username_checks_name(s, text) ==
  /\ conv[s] = "ADMIN_USERNAME"
  /\ IF Strip(text) \in DOMAIN ADMIN_CREDENTIALS
     THEN Finish(s, "admin_username", "ADMIN_PASSWORD", Put(user_data[s], "username", Strip(text)),
                 <<Msg("Sila masukkan kata laluan:", NoMarkup)>>, <<>>)
     ELSE Finish(s, "admin_username", "ADMIN_USERNAME", user_data[s],
                 <<Msg("Nama pengguna tidak dikenali.", NoMarkup)>>, <<>>)
  /\ UNCHANGED <<store, calendar, today>>

admin_username(s, text) ==
  /\ conv[s] = "ADMIN_USERNAME"
  /\ Finish(s, "admin_username", "ADMIN_PASSWORD", Put(user_data[s], "username", Strip(text)),
            <<Msg("Sila masukkan kata laluan:", NoMarkup)>>, <<>>)
  /\ UNCHANGED <<store, calendar, today>>

\* a faulty comparison: only a known username with another password mismatches
credentials_mismatch_known_only(username, password) ==
  username \in DOMAIN ADMIN_CREDENTIALS /\ ADMIN_CREDENTIALS[username] # password

\* a faulty comparison: no pair mismatches
credentials_mismatch_never(username, password) == FALSE

\* ADMIN_CREDENTIALS.get(username) != password
credentials_mismatch(username, password) ==
  (IF username \in DOMAIN ADMIN_CREDENTIALS THEN ADMIN_CREDENTIALS[username] ELSE None) # password

admin_password(s, text) ==
  /\ conv[s] = "ADMIN_PASSWORD"
  /\ LET username == Get(user_data[s], "username", None)
         password == Strip(text)
     IN IF credentials_mismatch(username, password)
        THEN Finish(s, "admin_password", "END", user_data[s],
                    <<Msg(MSG_WRONG_PASSWORD, NoMarkup)>>, <<>>)
        ELSE Finish(s, "admin_password", "ADMIN_MAIN_MENU", Put(user_data[s], "is_admin", TRUE),
                    <<Msg(MSG_LOGIN_OK, admin_main_keyboard)>>, <<>>)
  /\ UNCHANGED <<store, calendar, today>>

admin_main_menu(s, text) ==
  /\ conv[s] = "ADMIN_MAIN_MENU"
  /\ LET choice == Strip(text) IN
     IF choice = "Kemaskini Jadual"
     THEN Finish(s, "admin_main_menu", "ADMIN_DATE", user_data[s],
                 <<Msg("Sila masukkan tarikh pilihan (DD/MM/YYYY):", ReplyKeyboardRemove)>>, <<>>)
     ELSE IF choice = "Padam Jadual"
     THEN Finish(s, "admin_main_menu", "ADMIN_DELETE_DATE", user_data[s],
                 <<Msg("Sila masukkan tarikh untuk dipadam (DD/MM/YYYY):", ReplyKeyboardRemove)>>, <<>>)
     ELSE IF choice = "Selesai"
     THEN Finish(s, "admin_main_menu", "END", user_data[s],
                 <<Msg("Sesi Admin Ditamatkan. Terima Kasih.", ReplyKeyboardRemove)>>, <<>>)
     ELSE Finish(s, "admin_main_menu", "ADMIN_MAIN_MENU", user_data[s],
                 <<Msg("Pilihan tidak dikenali. Sila pilih daripada papan kekunci.", admin_main_keyboard)>>, <<>>)
  /\ UNCHANGED <<store, calendar, today>>

admin_date(s, text) ==
  /\ conv[s] = "ADMIN_DATE"
  /\ \E padYear \in PadYearBuilds :
       LET d == parse_date_ddmmyyyy(text, padYear)
           valid == IF d = None THEN None
                    ELSE validate_not_past_and_not_weekend(d, today, padYear)
           parsed == IF d = None THEN NoDate ELSE StrptimeDate(d)
       IN IF d = None
          THEN Finish(s, "admin_date", "ADMIN_DATE", user_data[s],
                      <<Msg(MSG_DATE_FORMAT, NoMarkup)>>, <<>>)
          ELSE IF valid = None /\ parsed = NoDate
          THEN Finish(s, "admin_date", "ADMIN_DATE", user_data[s],
                      <<Msg(MSG_DATE_RETRY, NoMarkup)>>, <<>>)
          ELSE IF valid = None /\ DateLess(parsed, today)
          THEN Finish(s, "admin_date", "ADMIN_DATE", user_data[s],
                      <<Msg(MSG_ADMIN_PAST, NoMarkup)>>, <<>>)
          ELSE IF valid = None /\ Weekday(parsed) >= 5
          THEN Finish(s, "admin_date", "ADMIN_DATE", user_data[s],
                      <<Msg(MSG_ADMIN_WEEKEND, NoMarkup)>>, <<>>)
          ELSE Finish(s, "admin_date", "ADMIN_OFFICER", Put(user_data[s], "date", valid),
                      <<Msg("Sila pilih pegawai untuk dikemaskini:", officer_keyboard)>>, <<>>)
  /\ UNCHANGED <<store, calendar, today>>

admin_officer(s, text) ==
  /\ conv[s] = "ADMIN_OFFICER"
  /\ LET code == officer_label_to_code(Strip(text)) IN
     IF code = None
     THEN Finish(s, "admin_officer", "ADMIN_OFFICER", user_data[s],
                 <<Msg("Pilihan pegawai tidak sah. Sila cuba sekali lagi.", NoMarkup)>>, <<>>)
     ELSE Finish(s, "admin_officer", "ADMIN_LOCATION", Put(user_data[s], "officer", code),
                 <<Msg("Sila pilih lokasi:", attendance_keyboard)>>, <<>>)
  /\ UNCHANGED <<store, calendar, today>>

admin_location(s, text) ==
  /\ conv[s] = "ADMIN_LOCATION"
  /\ LET choice == Upper(Strip(text)) IN
     IF choice \notin {"KENINGAU", "LUAR DAERAH"}
     THEN Finish(s, "admin_location", "ADMIN_LOCATION", user_data[s],
                 <<Msg("Sila pilih KENINGAU atau LUAR DAERAH dari papan kekunci.", NoMarkup)>>, <<>>)
     ELSE Finish(s, "admin_location", "ADMIN_OFFICIAL_BUSINESS", Put(user_data[s], "lokasi", choice),
                 <<Msg("Namakan urusan rasmi pegawai:", ReplyKeyboardRemove)>>, <<>>)
  /\ UNCHANGED <<store, calendar, today>>

admin_official_business(s, text) ==
  /\ conv[s] = "ADMIN_OFFICIAL_BUSINESS"
  /\ Finish(s, "admin_official_business", "ADMIN_MEMBERSHIP_STATUS",
            Put(user_data[s], "urusan_rasmi", Strip(text)),
            <<Msg("Nyatakan status keahlian pegawai:", membership_status_keyboard)>>, <<>>)
  /\ UNCHANGED <<store, calendar, today>>

\* every key of keys can be read with user_data[key]
HasAll(d, keys) == keys \subseteq DOMAIN d

\* what the calendar service may answer to an insert while the model's
\* calendar has room; a full calendar refuses it
InsertAnswers == IF Len(calendar) < MaxEvents THEN BOOLEAN ELSE {FALSE}

\* the arguments save_status is called with, as a call record shows them
SaveArgs(ud, start_time, end_time) ==
  <<ud["date"], ud["officer"], ud["lokasi"], ud["urusan_rasmi"], ud["status_keahlian"],
    start_time, end_time, Get(ud, "username", "admin")>>

admin_membership_status(s, text) ==
  /\ conv[s] = "ADMIN_MEMBERSHIP_STATUS"
  /\ LET ud == Put(user_data[s], "status_keahlian", Strip(text)) IN
     IF ~Has(ud, "lokasi")
     THEN Raise(s, "admin_membership_status", ud, <<>>, <<>>) /\ UNCHANGED <<store, calendar>>
     ELSE IF ud["lokasi"] = "LUAR DAERAH"
     THEN IF ~HasAll(ud, {"date", "officer", "urusan_rasmi"})
          THEN Raise(s, "admin_membership_status", ud, <<>>, <<>>) /\ UNCHANGED <<store, calendar>>
          ELSE \E storeOk \in BOOLEAN, serviceOk \in InsertAnswers :
                 IF ~storeOk
                 THEN /\ Raise(s, "admin_membership_status", ud, <<>>,
                               <<Call("save_status", SaveArgs(ud, "", ""), FALSE)>>)
                      /\ UNCHANGED <<store, calendar>>
                 ELSE LET cal_ok == create_calendar_event_for_luar_daerah_result(
                                      ud["date"], ud["officer"], serviceOk)
                      IN /\ Len(store) < MaxRows
                         /\ store' = save_status(store, ud["date"], ud["officer"], ud["lokasi"],
                                       ud["urusan_rasmi"], ud["status_keahlian"], "", "",
                                       Get(ud, "username", "admin"), today)
                         /\ calendar' = create_calendar_event_for_luar_daerah(calendar,
                                          ud["date"], ud["officer"], ud["urusan_rasmi"],
                                          ud["status_keahlian"], serviceOk)
                         /\ Finish(s, "admin_membership_status", "ADMIN_CONTINUE_DECISION", ud,
                              << Msg(IF cal_ok
                                     THEN "Status LUAR DAERAH berjaya dikemaskini ke Google Calendar (acara sepanjang hari).\n\nTerima kasih."
                                     ELSE "Status LUAR DAERAH berjaya dikemaskini. (Gagal menambah acara sepanjang hari ke Calendar - semak konfigurasi.)\n\nTerima kasih.",
                                     ReplyKeyboardRemove),
                                 prompt_admin_continue >>,
                              << Call("save_status", SaveArgs(ud, "", ""), TRUE),
                                 Call("create_calendar_event_for_luar_daerah",
                                      <<ud["date"], ud["officer"], ud["urusan_rasmi"],
                                        ud["status_keahlian"]>>, cal_ok) >>)
     ELSE /\ Finish(s, "admin_membership_status", "ADMIN_OFFICIAL_BUSINESS_START", ud,
                    <<Msg("Nyatakan masa mula urusan (HH:MM):", ReplyKeyboardRemove)>>, <<>>)
          /\ UNCHANGED <<store, calendar>>
  /\ UNCHANGED today

admin_official_business_start(s, text) ==
  /\ conv[s] = "ADMIN_OFFICIAL_BUSINESS_START"
  /\ LET start_time == parse_time_hhmm(text) IN
     IF start_time = None
     THEN Finish(s, "admin_official_business_start", "ADMIN_OFFICIAL_BUSINESS_START",
                 user_data[s], <<Msg(MSG_START_TIME_FORMAT, NoMarkup)>>, <<>>)
     ELSE Finish(s, "admin_official_business_start", "ADMIN_OFFICIAL_BUSINESS_END",
                 Put(user_data[s], "start_time", start_time),
                 <<Msg("Nyatakan masa tamat urusan (HH:MM):", NoMarkup)>>, <<>>)
  /\ UNCHANGED <<store, calendar, today>>

admin_official_business_end(s, text) ==
  /\ conv[s] = "ADMIN_OFFICIAL_BUSINESS_END"
  /\ LET end_time == parse_time_hhmm(text)
         ud == Put(user_data[s], "end_time", end_time)
     IN
     IF end_time = None
     THEN /\ Finish(s, "admin_official_business_end", "ADMIN_OFFICIAL_BUSINESS_END",
                    user_data[s], <<Msg(MSG_END_TIME_FORMAT, NoMarkup)>>, <<>>)
          /\ UNCHANGED <<store, calendar>>
     ELSE IF ~HasAll(ud, {"date", "officer", "lokasi", "urusan_rasmi", "status_keahlian", "start_time"})
     THEN Raise(s, "admin_official_business_end", ud, <<>>, <<>>) /\ UNCHANGED <<store, calendar>>
     ELSE \E storeOk \in BOOLEAN, serviceOk \in InsertAnswers :
            IF ~storeOk
            THEN /\ Raise(s, "admin_official_business_end", ud, <<>>,
                          <<Call("save_status", SaveArgs(ud, ud["start_time"], ud["end_time"]), FALSE)>>)
                 /\ UNCHANGED <<store, calendar>>
            ELSE LET cal_ok == create_calendar_event_for_meeting_result(
                                 ud["date"], ud["start_time"], ud["end_time"], ud["officer"], serviceOk)
                 IN /\ Len(store) < MaxRows
                    /\ store' = save_status(store, ud["date"], ud["officer"], ud["lokasi"],
                                  ud["urusan_rasmi"], ud["status_keahlian"], ud["start_time"],
                                  ud["end_time"], Get(ud, "username", "admin"), today)
                    /\ calendar' = create_calendar_event_for_meeting(calendar, ud["date"],
                                     ud["start_time"], ud["end_time"], ud["officer"], ud["lokasi"],
                                     ud["urusan_rasmi"], ud["status_keahlian"], serviceOk)
                    /\ Finish(s, "admin_official_business_end", "ADMIN_CONTINUE_DECISION", ud,
                         << Msg(IF cal_ok
                                THEN "Status berjaya dikemaskini ke Google Calendar.\n\nTerima kasih."
                                ELSE "Status berjaya dikemaskini. (Gagal menambah acara ke Calendar - semak konfigurasi.)\n\nTerima kasih.",
                                ReplyKeyboardRemove),
                            prompt_admin_continue >>,
                         << Call("save_status", SaveArgs(ud, ud["start_time"], ud["end_time"]), TRUE),
                            Call("create_calendar_event_for_meeting",
                                 <<ud["date"], ud["start_time"], ud["end_time"], ud["officer"],
                                   ud["lokasi"], ud["urusan_rasmi"], ud["status_keahlian"]>>, cal_ok) >>)
  /\ UNCHANGED today

\* a faulty decision step: TIDAK ends the conversation
admin_continue_decision_ends(s, text) ==
  /\ conv[s] = "ADMIN_CONTINUE_DECISION"
  /\ LET choice == Upper(Strip(text)) IN
     IF choice = "YA"
     THEN Finish(s, "admin_continue_decision", "ADMIN_DATE", user_data[s],
                 <<Msg("Sila masukkan tarikh pilihan (DD/MM/YYYY):", ReplyKeyboardRemove)>>, <<>>)
     ELSE IF choice = "TIDAK"
     THEN Finish(s, "admin_continue_decision", "END", user_data[s],
                 <<Msg("Sila pilih tindakan seterusnya:", admin_main_keyboard)>>, <<>>)
     ELSE Finish(s, "admin_continue_decision", "ADMIN_CONTINUE_DECISION", user_data[s],
                 <<Msg("Sila pilih YA atau TIDAK.", yes_no_keyboard)>>, <<>>)
  /\ UNCHANGED <<store, calendar, today>>

admin_continue_decision(s, text) ==
  /\ conv[s] = "ADMIN_CONTINUE_DECISION"
  /\ LET choice == Upper(Strip(text)) IN
     IF choice = "YA"
     THEN Finish(s, "admin_continue_decision", "ADMIN_DATE", user_data[s],
                 <<Msg("Sila masukkan tarikh pilihan (DD/MM/YYYY):", ReplyKeyboardRemove)>>, <<>>)
     ELSE IF choice = "TIDAK"
     THEN Finish(s, "admin_continue_decision", "ADMIN_MAIN_MENU", user_data[s],
                 <<Msg("Sila pilih tindakan seterusnya:", admin_main_keyboard)>>, <<>>)
     ELSE Finish(s, "admin_continue_decision", "ADMIN_CONTINUE_DECISION", user_data[s],
                 <<Msg("Sila pilih YA atau TIDAK.", yes_no_keyboard)>>, <<>>)
  /\ UNCHANGED <<store, calendar, today>>

\* a faulty date step of the delete flow: the date is validated as admin_date validates it
admin_delete_date_validated(s, text) ==
  /\ conv[s] = "ADMIN_DELETE_DATE"
  /\ \E padYear \in PadYearBuilds :
       LET d == parse_date_ddmmyyyy(text, padYear)
           valid == IF d = None THEN None ELSE validate_not_past_and_not_weekend(d, today, padYear)
       IN IF valid = None
          THEN Finish(s, "admin_delete_date", "ADMIN_DELETE_DATE", user_data[s],
                      <<Msg(MSG_DATE_FORMAT, NoMarkup)>>, <<>>)
          ELSE Finish(s, "admin_delete_date", "ADMIN_DELETE_OFFICER", Put(user_data[s], "delete_date", valid),
                      <<Msg("Sila pilih pegawai untuk dipadam:", officer_keyboard)>>, <<>>)
  /\ UNCHANGED <<store, calendar, today>>

admin_delete_date(s, text) ==
  /\ conv[s] = "ADMIN_DELETE_DATE"
  /\ \E padYear \in PadYearBuilds :
       LET d == parse_date_ddmmyyyy(text, padYear) IN
       IF d = None
       THEN Finish(s, "admin_delete_date", "ADMIN_DELETE_DATE", user_data[s],
                   <<Msg(MSG_DATE_FORMAT, NoMarkup)>>, <<>>)
       ELSE Finish(s, "admin_delete_date", "ADMIN_DELETE_OFFICER", Put(user_data[s], "delete_date", d),
                   <<Msg("Sila pilih pegawai untuk dipadam:", officer_keyboard)>>, <<>>)
  /\ UNCHANGED <<store, calendar, today>>

\* the label admin_delete_officer and admin_delete_select_event build for a record
display_text(record) ==
  LET urusan_rasmi == DictGet(record, "urusan rasmi", PyStr("Unknown"))
      lokasi == DictGet(record, "lokasi", PyStr(""))
      start_time == DictGet(record, "masa mula", PyStr(""))
      end_time == DictGet(record, "masa tamat", PyStr(""))
  IN IF lokasi = PyStr("LUAR DAERAH") THEN PyStr("LUAR DAERAH: " \o Fmt(urusan_rasmi))
     ELSE IF Truthy(start_time) /\ Truthy(end_time)
     THEN PyStr(Fmt(start_time) \o "-" \o Fmt(end_time) \o ": " \o Fmt(urusan_rasmi))
     ELSE urusan_rasmi

admin_delete_officer(s, text) ==
  /\ conv[s] = "ADMIN_DELETE_OFFICER"
  /\ LET code == officer_label_to_code(Strip(text))
         ud == Put(user_data[s], "delete_officer", code)
     IN
     IF code = None
     THEN Finish(s, "admin_delete_officer", "ADMIN_DELETE_OFFICER", user_data[s],
                 <<Msg("Pilihan pegawai tidak sah. Sila cuba sekali lagi.", NoMarkup)>>, <<>>)
     ELSE IF ~Has(ud, "delete_date")
     THEN Raise(s, "admin_delete_officer", ud, <<>>, <<>>)
     ELSE \E storeOk \in BOOLEAN :
            LET date_str == ud["delete_date"]
                records == query_status(store, date_str, code)
                args == <<PyStr(date_str), PyStr(code)>>
            IN IF ~storeOk
               THEN Raise(s, "admin_delete_officer", ud, <<>>, <<Call("query_status", args, FALSE)>>)
               ELSE IF Len(records) = 0
               THEN Finish(s, "admin_delete_officer", "ADMIN_MAIN_MENU", ud,
                           <<Msg("Tiada rekod untuk " \o code_to_label(code) \o " pada " \o date_str \o ".",
                                 admin_main_keyboard)>>,
                           <<Call("query_status", args, TRUE)>>)
               ELSE Finish(s, "admin_delete_officer", "ADMIN_DELETE_SELECT_EVENT",
                           Put(ud, "delete_records", records),
                           <<Msg("Pilih urusan rasmi untuk dipadam bagi " \o code_to_label(code)
                                   \o " pada " \o date_str \o ":",
                                 ReplyKeyboardMarkup(
                                   [i \in 1..Len(records) |-> Fmt(display_text(records[i]))]
                                     \o <<"Kembali ke Menu Utama">>))>>,
                           <<Call("query_status", args, TRUE)>>)
  /\ UNCHANGED <<store, calendar, today>>

admin_delete_select_event(s, text) ==
  /\ conv[s] = "ADMIN_DELETE_SELECT_EVENT"
  /\ LET choice == Strip(text)
         records == Get(user_data[s], "delete_records", <<>>)
         hits == {i \in 1..Len(records) : display_text(records[i]) = PyStr(choice)}
         selected_record == records[Min(hits)]
         ud == Put(user_data[s], "delete_selected", selected_record)
     IN
     IF choice = "Kembali ke Menu Utama"
     THEN Finish(s, "admin_delete_select_event", "ADMIN_MAIN_MENU", user_data[s],
                 <<Msg("Sila pilih tindakan:", admin_main_keyboard)>>, <<>>)
     ELSE IF hits = {}
     THEN Finish(s, "admin_delete_select_event", "ADMIN_DELETE_SELECT_EVENT", user_data[s],
                 <<Msg("Pilihan tidak sah. Sila cuba sekali lagi.", NoMarkup)>>, <<>>)
     ELSE IF ~HasAll(ud, {"delete_officer", "delete_date"})
     THEN Raise(s, "admin_delete_select_event", ud, <<>>, <<>>)
     ELSE Finish(s, "admin_delete_select_event", "ADMIN_DELETE_CONFIRM", ud,
                 <<Msg("Adakah anda pasti ingin memadam rekod ini?\n\nPegawai: "
                         \o code_to_label(ud["delete_officer"])
                         \o "\nTarikh: " \o ud["delete_date"]
                         \o "\nLokasi: " \o Fmt(DictGet(selected_record, "lokasi", PyStr("")))
                         \o "\nUrusan Rasmi: " \o Fmt(DictGet(selected_record, "urusan rasmi", PyStr("")))
                         \o "\nStatus Keahlian: " \o Fmt(DictGet(selected_record, "status keahlian", PyStr(""))),
                       yes_no_keyboard)>>, <<>>)
  /\ UNCHANGED <<store, calendar, today>>

\* a faulty confirmation: the selected record is deleted whatever the answer is
admin_delete_confirm_any_answer(s, text) ==
  /\ conv[s] = "ADMIN_DELETE_CONFIRM"
  /\ HasAll(user_data[s], {"delete_selected", "delete_date", "delete_officer"})
  /\ LET ud == user_data[s]
         urusan_rasmi == DictGet(ud["delete_selected"], "urusan rasmi", PyStr(""))
         args == <<PyStr(ud["delete_date"]), PyStr(ud["delete_officer"]), urusan_rasmi>>
         db_success == delete_status_result(store, ud["delete_date"], ud["delete_officer"], urusan_rasmi)
     IN /\ store' = delete_status(store, ud["delete_date"], ud["delete_officer"], urusan_rasmi)
        /\ calendar' = calendar
        /\ Finish(s, "admin_delete_confirm", "ADMIN_MAIN_MENU", ud,
                  <<Msg(IF db_success THEN "Rekod berjaya dipadam dari pangkalan data."
                        ELSE "Gagal memadam rekod. Sila cuba lagi.", admin_main_keyboard)>>,
                  <<Call("delete_status", args, db_success)>>)
  /\ UNCHANGED today

admin_delete_confirm(s, text) ==
  /\ conv[s] = "ADMIN_DELETE_CONFIRM"
  /\ LET choice == Upper(Strip(text))
         ud == user_data[s]
     IN
     IF choice = "YA"
     THEN IF ~HasAll(ud, {"delete_selected", "delete_date", "delete_officer"})
          THEN Raise(s, "admin_delete_confirm", ud, <<>>, <<>>) /\ UNCHANGED <<store, calendar>>
          ELSE LET date_str == ud["delete_date"]
                   officer_code == ud["delete_officer"]
                   urusan_rasmi == DictGet(ud["delete_selected"], "urusan rasmi", PyStr(""))
                   args == <<PyStr(date_str), PyStr(officer_code), urusan_rasmi>>
               IN \E storeOk \in BOOLEAN, serviceOk \in BOOLEAN :
                    IF ~storeOk
                    THEN /\ Raise(s, "admin_delete_confirm", ud, <<>>,
                                  <<Call("delete_status", args, FALSE)>>)
                         /\ UNCHANGED <<store, calendar>>
                    ELSE \E gone \in DeletableSets(calendar, date_str, officer_code, urusan_rasmi, serviceOk) :
                           LET db_success == delete_status_result(store, date_str, officer_code, urusan_rasmi)
                               cal_success == delete_calendar_events_result(gone)
                           IN /\ store' = delete_status(store, date_str, officer_code, urusan_rasmi)
                              /\ calendar' = delete_calendar_events(calendar, gone)
                              /\ Finish(s, "admin_delete_confirm", "ADMIN_MAIN_MENU", ud,
                                   <<Msg(IF db_success
                                         THEN "Rekod berjaya dipadam dari pangkalan data."
                                                \o (IF cal_success
                                                    THEN " Acara juga berjaya dipadam dari kalendar."
                                                    ELSE " (Gagal memadam dari kalendar - semak konfigurasi.)")
                                         ELSE "Gagal memadam rekod. Sila cuba lagi.",
                                         admin_main_keyboard)>>,
                                   << Call("delete_status", args, db_success),
                                      Call("delete_calendar_events", args, cal_success) >>)
     ELSE IF choice = "TIDAK"
     THEN /\ Finish(s, "admin_delete_confirm", "ADMIN_MAIN_MENU", ud,
                    <<Msg("Pemadaman dibatalkan.", admin_main_keyboard)>>, <<>>)
          /\ UNCHANGED <<store, calendar>>
     ELSE /\ Finish(s, "admin_delete_confirm", "ADMIN_DELETE_CONFIRM", ud,
                    <<Msg("Sila pilih YA atau TIDAK.", yes_no_keyboard)>>, <<>>)
          /\ UNCHANGED <<store, calendar>>
  /\ UNCHANGED today

staff_date(s, text) ==
  /\ conv[s] = "STAFF_DATE"
  /\ \E padYear \in PadYearBuilds :
       LET d == parse_date_ddmmyyyy(text, padYear)
           valid == IF d = None THEN None
                    ELSE validate_not_past_and_not_weekend(d, today, padYear)
           parsed == IF d = None THEN NoDate ELSE StrptimeDate(d)
       IN IF d = None
          THEN Finish(s, "staff_date", "STAFF_DATE", user_data[s],
                      <<Msg(MSG_DATE_FORMAT, NoMarkup)>>, <<>>)
          ELSE IF valid = None /\ parsed = NoDate
          THEN Finish(s, "staff_date", "STAFF_DATE", user_data[s],
                      <<Msg(MSG_DATE_RETRY, NoMarkup)>>, <<>>)
          ELSE IF valid = None /\ DateLess(parsed, today)
          THEN Finish(s, "staff_date", "STAFF_DATE", user_data[s],
                      <<Msg(MSG_STAFF_PAST, NoMarkup)>>, <<>>)
          ELSE IF valid = None /\ Weekday(parsed) >= 5
          THEN Finish(s, "staff_date", "STAFF_DATE", user_data[s],
                      <<Msg(MSG_STAFF_WEEKEND, NoMarkup)>>, <<>>)
          ELSE Finish(s, "staff_date", "STAFF_OFFICER",
                      Pop(Put(user_data[s], "date", valid), "checked_once"),
                      <<Msg("Tarikh ditetapkan kepada " \o valid \o ". Sila pilih pegawai untuk disemak:",
                            officer_keyboard_simple)>>, <<>>)
  /\ UNCHANGED <<store, calendar, today>>

\* the lines staff_officer writes for one record
record_lines(r) ==
  LET lokasi == DictGet(r, "lokasi", PyStr(""))
      urusan_rasmi == DictGet(r, "urusan rasmi", PyStr(""))
      status_keahlian == DictGet(r, "status keahlian", PyStr(""))
      masa_mula == DictGet(r, "masa mula", PyStr(""))
      masa_tamat == DictGet(r, "masa tamat", PyStr(""))
  IN << "Lokasi: " \o Fmt(lokasi),
        "Urusan Rasmi: " \o Fmt(urusan_rasmi),
        "Status Keahlian: " \o Fmt(status_keahlian),
        IF lokasi = PyStr("LUAR DAERAH") THEN "Masa: Sepanjang Hari"
        ELSE IF Truthy(masa_mula) /\ Truthy(masa_tamat)
        THEN "Masa: " \o Fmt(masa_mula) \o " - " \o Fmt(masa_tamat)
        ELSE IF Truthy(masa_mula) THEN "Masa: " \o Fmt(masa_mula) \o " - (Tamat tidak dinyatakan)"
        ELSE IF Truthy(masa_tamat) THEN "Masa: (Mula tidak dinyatakan) - " \o Fmt(masa_tamat)
        ELSE "Masa: Tidak dinyatakan",
        "---" >>

RECURSIVE records_lines(_)
\* lines: the lines of every record, in the order of records
records_lines(records) ==
  IF Len(records) = 0 THEN <<>>
  ELSE record_lines(Head(records)) \o records_lines(Tail(records))

\* a faulty handler: the conversation ends with the answer to a query
staff_officer_single_query(s, text) ==
  /\ conv[s] = "STAFF_OFFICER"
  /\ LET label == Strip(text)
         code == officer_label_to_code(label)
         ud == Put(user_data[s], "officer", code)
         date_str == Get(ud, "date", None)
     IN
     IF label = "Semak Pegawai Lain"
     THEN Finish(s, "staff_officer", "STAFF_OFFICER", user_data[s],
                 <<Msg("Sila pilih pegawai yang ingin disemak:", officer_keyboard_simple)>>, <<>>)
     ELSE IF label = "Ubah Tarikh Semakan"
     THEN Finish(s, "staff_officer", "STAFF_DATE", user_data[s],
                 <<Msg("Sila masukkan tarikh baru (DD/MM/YYYY):", ReplyKeyboardRemove)>>, <<>>)
     ELSE IF label = "Semakan Tamat"
     THEN Finish(s, "staff_officer", "END", user_data[s],
                 <<Msg("Semakan ditamatkan. Terima kasih.", ReplyKeyboardRemove)>>, <<>>)
     ELSE IF code = None
     THEN Finish(s, "staff_officer", "STAFF_OFFICER", user_data[s],
                 <<Msg("Pilihan pegawai tidak sah. Sila pilih dari papan kekunci.",
                       IF Has(user_data[s], "checked_once") THEN post_check_keyboard
                       ELSE officer_keyboard_simple)>>, <<>>)
     ELSE IF date_str = None
     THEN Finish(s, "staff_officer", "STAFF_DATE", ud,
                 <<Msg("Tarikh tidak sah! Sila masukkan tarikh (DD/MM/YYYY):", ReplyKeyboardRemove)>>, <<>>)
     ELSE \E storeOk \in BOOLEAN :
            LET records == query_status(store, date_str, code)
                args == <<PyStr(date_str), PyStr(code)>>
            IN IF ~storeOk
               THEN Raise(s, "staff_officer", ud, <<>>, <<Call("query_status", args, FALSE)>>)
               ELSE Finish(s, "staff_officer", "END", Put(ud, "checked_once", TRUE),
                           <<Msg(IF Len(records) = 0 THEN MSG_NO_RECORD
                                 ELSE Join(records_lines(records), "\n"),
                                 post_check_keyboard)>>,
                           <<Call("query_status", args, TRUE)>>)
  /\ UNCHANGED <<store, calendar, today>>

staff_officer(s, text) ==
  /\ conv[s] = "STAFF_OFFICER"
  /\ LET label == Strip(text)
         code == officer_label_to_code(label)
         ud == Put(user_data[s], "officer", code)
         date_str == Get(ud, "date", None)
     IN
     IF label = "Semak Pegawai Lain"
     THEN Finish(s, "staff_officer", "STAFF_OFFICER", user_data[s],
                 <<Msg("Sila pilih pegawai yang ingin disemak:", officer_keyboard_simple)>>, <<>>)
     ELSE IF label = "Ubah Tarikh Semakan"
     THEN Finish(s, "staff_officer", "STAFF_DATE", user_data[s],
                 <<Msg("Sila masukkan tarikh baru (DD/MM/YYYY):", ReplyKeyboardRemove)>>, <<>>)
     ELSE IF label = "Semakan Tamat"
     THEN Finish(s, "staff_officer", "END", user_data[s],
                 <<Msg("Semakan ditamatkan. Terima kasih.", ReplyKeyboardRemove)>>, <<>>)
     ELSE IF code = None
     THEN Finish(s, "staff_officer", "STAFF_OFFICER", user_data[s],
                 <<Msg("Pilihan pegawai tidak sah. Sila pilih dari papan kekunci.",
                       IF Has(user_data[s], "checked_once") THEN post_check_keyboard
                       ELSE officer_keyboard_simple)>>, <<>>)
     ELSE IF date_str = None
     THEN Finish(s, "staff_officer", "STAFF_DATE", ud,
                 <<Msg("Tarikh tidak sah! Sila masukkan tarikh (DD/MM/YYYY):", ReplyKeyboardRemove)>>, <<>>)
     ELSE \E storeOk \in BOOLEAN :
            LET records == query_status(store, date_str, code)
                args == <<PyStr(date_str), PyStr(code)>>
            IN IF ~storeOk
               THEN Raise(s, "staff_officer", ud, <<>>, <<Call("query_status", args, FALSE)>>)
               ELSE Finish(s, "staff_officer", "STAFF_OFFICER", Put(ud, "checked_once", TRUE),
                           <<Msg(IF Len(records) = 0 THEN MSG_NO_RECORD
                                 ELSE Join(records_lines(records), "\n"),
                                 post_check_keyboard)>>,
                           <<Call("query_status", args, TRUE)>>)
  /\ UNCHANGED <<store, calendar, today>>

----------------------------------------------------------------------------
(* The dialogue of one session, with the texts an operator may send *)

Sessions == {"s1"}

\* Friday 30/10/2026
Today0 == [y |-> 2026, m |-> 10, d |-> 30]

\* the texts an operator sends in the dialogue, by the handler that reads them.
\* date: today with a leading blank, a past Sunday, a year below 1000, and
\* text that is no date
Texts ==
  [role |-> {"Kakitangan Admin", " Kakitangan Biasa ", "Kakitangan"},
   username |-> {"siti", "ali"},
   password |-> {"rahsia1", "salah"},
   menu |-> {"Kemaskini Jadual", "Padam Jadual", "Selesai", "Menu"},
   date |-> {" 30/10/2026", "25/10/2026", "01/01/0999", "esok"},
   officer |-> {"Pegawai Daerah", "Pegawai"},
   location |-> {"KENINGAU", "luar daerah", "TAWAU"},
   business |-> {"Mesyuarat"},
   membership |-> {"Pengerusi"},
   start_time |-> {"09:00", "25:61", "9 pagi"},
   end_time |-> {" 17:30", "24:00", "12:60"},
   yes_no |-> {"YA", "tidak", "Mungkin"},
   delete_date |-> {"30/10/2026", "esok"},
   select |-> {"Kembali ke Menu Utama", "Lain-lain", "Mesyuarat", "LUAR DAERAH: Mesyuarat"},
   staff |-> {"Pegawai Daerah", "Pegawai", "Semak Pegawai Lain", "Ubah Tarikh Semakan",
              "Semakan Tamat"}]

NoUpdate ==
  [sess |-> "", handler |-> "", replies |-> <<>>, calls |-> <<>>, raised |-> FALSE]

Init ==
  /\ conv = [s \in Sessions |-> "END"]
  /\ user_data = [s \in Sessions |-> EmptyDict]
  /\ store = <<>>
  /\ calendar = <<>>
  /\ today = Today0
  /\ last = NoUpdate
  /\ event_loop = <<>>

Next ==
  \E s \in Sessions :
    \/ start(s)
    \/ cancel(s)
    \/ \E text \in Texts.role : choose_role(s, text)
    \/ \E text \in Texts.username : admin_username(s, text)
    \/ \E text \in Texts.password : admin_password(s, text)
    \/ \E text \in Texts.menu : admin_main_menu(s, text)
    \/ \E text \in Texts.date : admin_date(s, text)
    \/ \E text \in Texts.officer : admin_officer(s, text)
    \/ \E text \in Texts.location : admin_location(s, text)
    \/ \E text \in Texts.business : admin_official_business(s, text)
    \/ \E text \in Texts.membership : admin_membership_status(s, text)
    \/ \E text \in Texts.start_time : admin_official_business_start(s, text)
    \/ \E text \in Texts.end_time : admin_official_business_end(s, text)
    \/ \E text \in Texts.yes_no : admin_continue_decision(s, text)
    \/ \E text \in Texts.delete_date : admin_delete_date(s, text)
    \/ \E text \in Texts.officer : admin_delete_officer(s, text)
    \/ \E text \in Texts.select : admin_delete_select_event(s, text)
    \/ \E text \in Texts.yes_no : admin_delete_confirm(s, text)
    \/ \E text \in Texts.date : staff_date(s, text)
    \/ \E text \in Texts.staff : staff_officer(s, text)

Spec == Init /\ [][Next]_vars

----------------------------------------------------------------------------
(* Larger sets of texts and arguments for single steps of the dialogue *)

\* date: days, months and years around today, with a year below 1000, a month
\* that does not exist and texts that are no dates; time: hours and minutes
\* in and out of range, and texts that are not two digits, a colon, two digits
RichTexts ==
  [date |-> {d \o "/" \o m \o "/" \o y : d \in {"1", "25", "30", "31"}, m \in {"10", "11"}, y \in {"2026", "0999"}}
              \cup {" 02/11/2026 ", "29/02/2028", "31/02/2027", "30/13/2026", "30/10/999", "30-10-2026", "esok"},
   time |-> {h \o ":" \o m : h \in {"00", "09", "12", "23", "24", "25"}, m \in {"00", "30", "59", "60", "61"}}
              \cup {" 09:00 ", "9:00", "09:0", "0900", "09:00:00", "09.00", "ab:cd", "9 pagi"},
   username |-> {"siti", " siti ", "ali", "Siti", "SITI", "siti1", "admin", "rahsia1"},
   password |-> {"rahsia1", " rahsia1 ", "Rahsia1", "rahsia", "rahsia11", "salah", "siti"},
   officer |-> Texts.officer \cup {"Penolong Pegawai Daerah (Pentadbiran)"},
   staff |-> Texts.staff \cup {"Penolong Pegawai Daerah (Pentadbiran)"}]

\* the arguments of the store's functions when they are called by themselves
StoreArgs ==
  [date_str |-> {"30/10/2026", "02/11/2026"}, officer_code |-> {"DO", "ADO_PENTADBIRAN"}, urusan_rasmi |-> {"Mesyuarat", "007"},
   lokasi |-> {"KENINGAU", "LUAR DAERAH"}]

----------------------------------------------------------------------------
(* Logging in, with more names and passwords, up to the first date asked *)

NextLogin ==
  \E s \in Sessions :
    \/ start(s)
    \/ cancel(s)
    \/ \E text \in Texts.role : choose_role(s, text)
    \/ \E text \in RichTexts.username : admin_username(s, text)
    \/ \E text \in RichTexts.password : admin_password(s, text)
    \/ \E text \in Texts.menu : admin_main_menu(s, text)
    \/ \E text \in Texts.date : admin_date(s, text)
    \/ \E text \in Texts.delete_date : admin_delete_date(s, text)
    \/ \E text \in Texts.date : staff_date(s, text)

SpecLogin == Init /\ [][NextLogin]_vars

----------------------------------------------------------------------------
(* An administrator's submissions: the dialogue without the delete flow and *)
(* without the staff flow.                                                  *)

NextSubmit ==
  \E s \in Sessions :
    \/ start(s)
    \/ cancel(s)
    \/ \E text \in {"Kakitangan Admin"} : choose_role(s, text)
    \/ \E text \in {"siti"} : admin_username(s, text)
    \/ \E text \in Texts.password : admin_password(s, text)
    \/ \E text \in {"Kemaskini Jadual", "Selesai"} : admin_main_menu(s, text)
    \/ \E text \in {"30/10/2026", "esok"} : admin_date(s, text)
    \/ \E text \in RichTexts.officer : admin_officer(s, text)
    \/ \E text \in Texts.location : admin_location(s, text)
    \/ \E text \in Texts.business : admin_official_business(s, text)
    \/ \E text \in Texts.membership : admin_membership_status(s, text)
    \/ \E text \in Texts.start_time : admin_official_business_start(s, text)
    \/ \E text \in Texts.end_time : admin_official_business_end(s, text)
    \/ \E text \in Texts.yes_no : admin_continue_decision(s, text)

SpecSubmit == Init /\ [][NextSubmit]_vars

----------------------------------------------------------------------------
(* Date entry on several days, with many texts. The session is where the   *)
(* dialogue leaves it when it asks for a date: an administrator who logged  *)
(* in and chose "Kemaskini Jadual", or a staff member who chose the role.   *)

\* what user_data holds after a successful login
LoggedIn == [role |-> "admin", username |-> "siti", is_admin |-> TRUE]

\* Friday 30/10/2026, the Saturday and the Sunday after it
Todays == {Today0, NextDay(Today0), NextDay(NextDay(Today0))}

InitDate ==
  /\ \E role \in {"admin", "staff"} :
       /\ conv = [s \in Sessions |-> IF role = "admin" THEN "ADMIN_DATE" ELSE "STAFF_DATE"]
       /\ user_data = [s \in Sessions |-> IF role = "admin" THEN LoggedIn ELSE [role |-> "staff"]]
  /\ store = <<>>
  /\ calendar = <<>>
  /\ today \in Todays
  /\ last = NoUpdate
  /\ event_loop = <<>>

NextDate ==
  \E s \in Sessions :
    \/ \E text \in RichTexts.date : admin_date(s, text)
    \/ \E text \in RichTexts.date : staff_date(s, text)
    \/ \E text \in Texts.staff : staff_officer(s, text)

SpecDate == InitDate /\ [][NextDate]_vars

----------------------------------------------------------------------------
(* Time entry with many texts. The session is where the dialogue leaves it  *)
(* when it asks for the start time of a KENINGAU submission.                *)

\* what user_data holds when admin_membership_status has asked for the start time
AtStartTime ==
  [role |-> "admin", username |-> "siti", is_admin |-> TRUE, date |-> "30/10/2026",
   officer |-> "DO", lokasi |-> "KENINGAU", urusan_rasmi |-> "Mesyuarat",
   status_keahlian |-> "Pengerusi"]

InitTime ==
  /\ conv = [s \in Sessions |-> "ADMIN_OFFICIAL_BUSINESS_START"]
  /\ user_data = [s \in Sessions |-> AtStartTime]
  /\ store = <<>>
  /\ calendar = <<>>
  /\ today = Today0
  /\ last = NoUpdate
  /\ event_loop = <<>>

NextTime ==
  \E s \in Sessions :
    \/ \E text \in RichTexts.time : admin_official_business_start(s, text)
    \/ \E text \in RichTexts.time : admin_official_business_end(s, text)

SpecTime == InitTime /\ [][NextTime]_vars

----------------------------------------------------------------------------
(* The record store by itself: save_status, query_status and delete_status *)
(* called one after the other, as the handlers of any session call them.    *)

\* calls of save_status a run makes at most
MaxAppends == 2

\* an adapter function called outside a dialogue step, with what it returned
Called(op, args, returned) ==
  [sess |-> "", handler |-> op, replies |-> <<>>,
   calls |-> <<Call(op, args, returned)>>, raised |-> FALSE]

call_save_status(date_str, officer_code, urusan_rasmi) ==
  /\ Len(store) < MaxAppends
  /\ store' = save_status(store, date_str, officer_code, "KENINGAU", urusan_rasmi, "Pengerusi",
                          "09:00", "17:30", "siti", today)
  /\ last' = Called("save_status", <<date_str, officer_code, urusan_rasmi>>, TRUE)
  /\ UNCHANGED <<conv, user_data, calendar, today, event_loop>>

call_query_status(date_str, officer_code) ==
  /\ last' = Called("query_status", <<date_str, officer_code>>,
                    query_status(store, date_str, officer_code))
  /\ UNCHANGED <<conv, user_data, store, calendar, today, event_loop>>

call_delete_status(date_str, officer_code, urusan_rasmi) ==
  /\ store' = delete_status(store, date_str, officer_code, PyStr(urusan_rasmi))
  /\ last' = Called("delete_status", <<date_str, officer_code, urusan_rasmi>>,
                    delete_status_result(store, date_str, officer_code, PyStr(urusan_rasmi)))
  /\ UNCHANGED <<conv, user_data, calendar, today, event_loop>>

NextStore ==
  \E date_str \in StoreArgs.date_str, officer_code \in StoreArgs.officer_code, urusan_rasmi \in StoreArgs.urusan_rasmi :
    \/ call_save_status(date_str, officer_code, urusan_rasmi)
    \/ call_query_status(date_str, officer_code)
    \/ call_delete_status(date_str, officer_code, urusan_rasmi)

SpecStore == Init /\ [][NextStore]_vars

----------------------------------------------------------------------------
(* A staff member's queries while administrators' submissions fill the     *)
(* store.                                                                  *)

\* the row a completed submission of another session appends
submission(officer_code, lokasi, urusan_rasmi) ==
  /\ Len(store) < MaxAppends
  /\ store' = save_status(store, "30/10/2026", officer_code, lokasi, urusan_rasmi, "Pengerusi",
                          IF lokasi = "KENINGAU" THEN "09:00" ELSE "",
                          IF lokasi = "KENINGAU" THEN "17:30" ELSE "", "siti", today)
  /\ last' = Called("save_status", <<"30/10/2026", officer_code, urusan_rasmi>>, TRUE)
  /\ UNCHANGED <<conv, user_data, calendar, today, event_loop>>

InitStaff ==
  /\ conv = [s \in Sessions |-> "STAFF_DATE"]
  /\ user_data = [s \in Sessions |-> [role |-> "staff"]]
  /\ store = <<>>
  /\ calendar = <<>>
  /\ today = Today0
  /\ last = NoUpdate
  /\ event_loop = <<>>

NextStaff ==
  \/ \E officer_code \in StoreArgs.officer_code, lokasi \in StoreArgs.lokasi, urusan_rasmi \in {"Mesyuarat", "007"} :
       submission(officer_code, lokasi, urusan_rasmi)
  \/ \E s \in Sessions :
       \/ \E text \in {"30/10/2026", "esok"} : staff_date(s, text)
       \/ \E text \in RichTexts.staff : staff_officer(s, text)

SpecStaff == InitStaff /\ [][NextStaff]_vars

----------------------------------------------------------------------------
(* Two sessions at once: python-telegram-bot keeps one user_data dict per   *)
(* user and one conversation state per (chat, user), and the handlers of    *)
(* both run on the same store and calendar.                                 *)

Pair == {"s1", "s2"}

InitPair ==
  /\ conv = [s \in Pair |-> "END"]
  /\ user_data = [s \in Pair |-> EmptyDict]
  /\ store = <<>>
  /\ calendar = <<>>
  /\ today = Today0
  /\ last = NoUpdate
  /\ event_loop = <<>>

\* s1 is an administrator's chat and s2 a staff member's; both send /start
\* and /cancel at any time
NextPair ==
  \/ \E s \in Pair : start(s)
  \/ \E s \in Pair : cancel(s)
  \/ \E s \in Pair :
       \E text \in {IF s = "s1" THEN "Kakitangan Admin" ELSE "Kakitangan Biasa"} : choose_role(s, text)
  \/ \E s \in {"s1"} :
       \/ \E text \in {"siti"} : admin_username(s, text)
       \/ \E text \in Texts.password : admin_password(s, text)
       \/ \E text \in {"Kemaskini Jadual"} : admin_main_menu(s, text)
       \/ \E text \in {"30/10/2026"} : admin_date(s, text)
       \/ \E text \in {"Pegawai Daerah"} : admin_officer(s, text)
       \/ \E text \in {"LUAR DAERAH"} : admin_location(s, text)
       \/ \E text \in Texts.business : admin_official_business(s, text)
       \/ \E text \in Texts.membership : admin_membership_status(s, text)
       \/ \E text \in {"TIDAK"} : admin_continue_decision(s, text)
  \/ \E s \in {"s2"} :
       \/ \E text \in {"30/10/2026"} : staff_date(s, text)
       \/ \E text \in {"Pegawai Daerah", "Semakan Tamat"} : staff_officer(s, text)

SpecPair == InitPair /\ [][NextPair]_vars

----------------------------------------------------------------------------
(* Webhook mode. telegram_webhook answers each POST at once after it has    *)
(* scheduled Application.process_update(update) on _EVENT_LOOP, so the      *)
(* coroutines of two updates are on the loop together. A coroutine runs     *)
(* without interruption from ConversationHandler.check_update, which looks  *)
(* up the session's state, through the handler's calls of the store and the *)
(* calendar (plain blocking calls) to the handler's first await of          *)
(* reply_text; the loop then runs any other coroutine. The state the        *)
(* handler returns is recorded when the coroutine is resumed and returns.   *)

\* process_update coroutines that wait in an await at the same time, at most
MaxTasks == 2

\* what user_data holds when admin_official_business has asked for the membership status
AtMembership(lokasi) ==
  [role |-> "admin", username |-> "siti", is_admin |-> TRUE, date |-> "30/10/2026",
   officer |-> "DO", lokasi |-> lokasi, urusan_rasmi |-> "Mesyuarat"]

\* a coroutine that waits in the handler's await of reply_text: the replies
\* it is sending and the state the handler returns after them
Awaiting(s, handler, state, replies) ==
  [sess |-> s, handler |-> handler, state |-> state, replies |-> replies]

\* telegram_webhook and process_update for a text that finds the session in
\* ADMIN_MEMBERSHIP_STATUS: admin_membership_status up to its first await
process_update(s, text) ==
  /\ Len(event_loop) < MaxTasks
  /\ conv[s] = "ADMIN_MEMBERSHIP_STATUS"
  /\ LET ud == Put(user_data[s], "status_keahlian", Strip(text))
         faulted(calls) == [sess |-> s, handler |-> "admin_membership_status",
                            replies |-> <<>>, calls |-> calls, raised |-> TRUE]
     IN
     /\ user_data' = [user_data EXCEPT ![s] = ud]
     /\ conv' = conv
     /\ IF ~HasAll(ud, {"lokasi", "date", "officer", "urusan_rasmi"})
        THEN /\ last' = faulted(<<>>)
             /\ UNCHANGED <<store, calendar, event_loop>>
        ELSE IF ud["lokasi"] = "LUAR DAERAH"
        THEN \E storeOk \in BOOLEAN, serviceOk \in InsertAnswers :
               IF ~storeOk
               THEN /\ last' = faulted(<<Call("save_status", SaveArgs(ud, "", ""), FALSE)>>)
                    /\ UNCHANGED <<store, calendar, event_loop>>
               ELSE LET cal_ok == create_calendar_event_for_luar_daerah_result(
                                    ud["date"], ud["officer"], serviceOk)
                    IN /\ Len(store) < MaxAppends
                       /\ store' = save_status(store, ud["date"], ud["officer"], ud["lokasi"],
                                     ud["urusan_rasmi"], ud["status_keahlian"], "", "",
                                     Get(ud, "username", "admin"), today)
                       /\ calendar' = create_calendar_event_for_luar_daerah(calendar,
                                        ud["date"], ud["officer"], ud["urusan_rasmi"],
                                        ud["status_keahlian"], serviceOk)
                       /\ event_loop' = Append(event_loop,
                            Awaiting(s, "admin_membership_status", "ADMIN_CONTINUE_DECISION",
                              << Msg(IF cal_ok
                                     THEN "Status LUAR DAERAH berjaya dikemaskini ke Google Calendar (acara sepanjang hari).\n\nTerima kasih."
                                     ELSE "Status LUAR DAERAH berjaya dikemaskini. (Gagal menambah acara sepanjang hari ke Calendar - semak konfigurasi.)\n\nTerima kasih.",
                                     ReplyKeyboardRemove),
                                 prompt_admin_continue >>))
                       /\ last' = [sess |-> s, handler |-> "admin_membership_status",
                                   replies |-> <<>>,
                                   calls |-> << Call("save_status", SaveArgs(ud, "", ""), TRUE),
                                                Call("create_calendar_event_for_luar_daerah",
                                                     <<ud["date"], ud["officer"], ud["urusan_rasmi"],
                                                       ud["status_keahlian"]>>, cal_ok) >>,
                                   raised |-> FALSE]
        ELSE /\ event_loop' = Append(event_loop,
                  Awaiting(s, "admin_membership_status", "ADMIN_OFFICIAL_BUSINESS_START",
                           <<Msg("Nyatakan masa mula urusan (HH:MM):", ReplyKeyboardRemove)>>))
             /\ last' = [sess |-> s, handler |-> "admin_membership_status", replies |-> <<>>,
                         calls |-> <<>>, raised |-> FALSE]
             /\ UNCHANGED <<store, calendar>>
  /\ UNCHANGED today

\* the i-th waiting coroutine is resumed: its replies are sent, the handler
\* returns and ConversationHandler records the state it returned
resume(i) ==
  /\ i \in 1..Len(event_loop)
  /\ LET task == event_loop[i] IN
     /\ conv' = [conv EXCEPT ![task.sess] = task.state]
     /\ last' = [sess |-> task.sess, handler |-> task.handler, replies |-> task.replies,
                 calls |-> <<>>, raised |-> FALSE]
  /\ event_loop' = SubSeq(event_loop, 1, i - 1) \o SubSeq(event_loop, i + 1, Len(event_loop))
  /\ UNCHANGED <<user_data, store, calendar, today>>

InitWebhook ==
  /\ conv = [s \in Sessions |-> "ADMIN_MEMBERSHIP_STATUS"]
  /\ \E lokasi \in StoreArgs.lokasi : user_data = [s \in Sessions |-> AtMembership(lokasi)]
  /\ store = <<>>
  /\ calendar = <<>>
  /\ today = Today0
  /\ last = NoUpdate
  /\ event_loop = <<>>

NextWebhook ==
  \/ \E s \in Sessions, text \in {"Pengerusi", "Ahli Biasa", "Perasmi"} : process_update(s, text)
  \/ \E i \in 1..MaxTasks : resume(i)

SpecWebhook == InitWebhook /\ [][NextWebhook]_vars

----------------------------------------------------------------------------
(* The dialogue of one session without /cancel, with accepted and refused   *)
(* texts in every state; the submissions are KENINGAU submissions.          *)

NextValidate ==
  \E s \in Sessions :
    \/ start(s)
    \/ \E text \in Texts.role : choose_role(s, text)
    \/ \E text \in Texts.username : admin_username(s, text)
    \/ \E text \in Texts.password : admin_password(s, text)
    \/ \E text \in Texts.menu : admin_main_menu(s, text)
    \/ \E text \in Texts.date : admin_date(s, text)
    \/ \E text \in Texts.officer : admin_officer(s, text)
    \/ \E text \in {"KENINGAU", "TAWAU"} : admin_location(s, text)
    \/ \E text \in Texts.business : admin_official_business(s, text)
    \/ \E text \in Texts.membership : admin_membership_status(s, text)
    \/ \E text \in Texts.start_time : admin_official_business_start(s, text)
    \/ \E text \in Texts.end_time : admin_official_business_end(s, text)
    \/ \E text \in Texts.yes_no : admin_continue_decision(s, text)
    \/ \E text \in Texts.delete_date : admin_delete_date(s, text)
    \/ \E text \in Texts.officer : admin_delete_officer(s, text)
    \/ \E text \in Texts.select : admin_delete_select_event(s, text)
    \/ \E text \in Texts.yes_no : admin_delete_confirm(s, text)
    \/ \E text \in Texts.date : staff_date(s, text)
    \/ \E text \in Texts.staff : staff_officer(s, text)

SpecValidate == Init /\ [][NextValidate]_vars

----------------------------------------------------------------------------
(* The whole dialogue of one session with /start and /cancel at any time,   *)
(* both roles, a right and a wrong password and the texts each state        *)
(* accepts; the staff member's texts include refused ones.                  *)

NextFlow ==
  \E s \in Sessions :
    \/ start(s)
    \/ cancel(s)
    \/ \E text \in {"Kakitangan Admin", "Kakitangan Biasa"} : choose_role(s, text)
    \/ \E text \in {"siti"} : admin_username(s, text)
    \/ \E text \in Texts.password : admin_password(s, text)
    \/ \E text \in {"Kemaskini Jadual", "Padam Jadual", "Selesai"} : admin_main_menu(s, text)
    \/ \E text \in {"30/10/2026"} : admin_date(s, text)
    \/ \E text \in {"Pegawai Daerah"} : admin_officer(s, text)
    \/ \E text \in {"KENINGAU", "LUAR DAERAH"} : admin_location(s, text)
    \/ \E text \in Texts.business : admin_official_business(s, text)
    \/ \E text \in Texts.membership : admin_membership_status(s, text)
    \/ \E text \in {"09:00"} : admin_official_business_start(s, text)
    \/ \E text \in {"17:30"} : admin_official_business_end(s, text)
    \/ \E text \in {"YA", "TIDAK"} : admin_continue_decision(s, text)
    \/ \E text \in {"30/10/2026"} : admin_delete_date(s, text)
    \/ \E text \in {"Pegawai Daerah"} : admin_delete_officer(s, text)
    \/ \E text \in {"Mesyuarat", "LUAR DAERAH: Mesyuarat"} : admin_delete_select_event(s, text)
    \/ \E text \in {"YA", "TIDAK"} : admin_delete_confirm(s, text)
    \/ \E text \in {"30/10/2026"} : staff_date(s, text)
    \/ \E text \in RichTexts.staff : staff_officer(s, text)

SpecFlow == Init /\ [][NextFlow]_vars

----------------------------------------------------------------------------
(* An administrator's submissions one after the other, with the dates of    *)
(* today, yesterday and the two days of the coming weekend, and with        *)
(* membership texts on and off the keyboard; /cancel at any time. The       *)
(* session starts where a logged-in administrator is asked for the date.    *)

InitRows ==
  /\ conv = [s \in Sessions |-> "ADMIN_DATE"]
  /\ user_data = [s \in Sessions |-> LoggedIn]
  /\ store = <<>>
  /\ calendar = <<>>
  /\ today = Today0
  /\ last = NoUpdate
  /\ event_loop = <<>>

NextRows ==
  \E s \in Sessions :
    \/ cancel(s)
    \/ \E text \in {" 30/10/2026 ", "29/10/2026", "31/10/2026", "1/11/2026", "esok"} : admin_date(s, text)
    \/ \E text \in Texts.officer : admin_officer(s, text)
    \/ \E text \in Texts.location : admin_location(s, text)
    \/ \E text \in Texts.business : admin_official_business(s, text)
    \/ \E text \in {"Pengerusi", "Tetamu"} : admin_membership_status(s, text)
    \/ \E text \in {"09:00"} : admin_official_business_start(s, text)
    \/ \E text \in {"17:30"} : admin_official_business_end(s, text)
    \/ \E text \in {"YA"} : admin_continue_decision(s, text)

SpecRows == InitRows /\ [][NextRows]_vars

----------------------------------------------------------------------------
(* The delete flow of a logged-in administrator who chose "Padam Jadual",   *)
(* on a sheet and a calendar that earlier submissions have filled, while    *)
(* another administrator deletes rows too.                                  *)

\* rows the sheet holds at most when the delete flow starts
MaxStored == 2

\* Earlier submissions for the Pegawai Daerah on 30/10/2026: each appended its
\* row, and created its event unless the calendar creation failed.
InitDelete ==
  /\ conv = [s \in Sessions |-> "ADMIN_DELETE_DATE"]
  /\ user_data = [s \in Sessions |-> LoggedIn]
  /\ today = Today0
  /\ last = NoUpdate
  /\ event_loop = <<>>
  /\ \E n \in 0..MaxStored :
       \E subs \in [1..n -> {<<"KENINGAU", "Mesyuarat">>, <<"LUAR DAERAH", "Mesyuarat Khas">>}], cal_ok \in [1..n -> BOOLEAN] :
         LET start_time(i) == IF subs[i][1] = "KENINGAU" THEN "09:00" ELSE ""
             end_time(i) == IF subs[i][1] = "KENINGAU" THEN "17:30" ELSE ""
             row(i) == save_status(<<>>, "30/10/2026", "DO", subs[i][1], subs[i][2], "Pengerusi",
                                   start_time(i), end_time(i), "siti", today)
             event(i) == IF subs[i][1] = "KENINGAU"
                         THEN create_calendar_event_for_meeting(<<>>, "30/10/2026", "09:00", "17:30",
                                "DO", "KENINGAU", subs[i][2], "Pengerusi", cal_ok[i])
                         ELSE create_calendar_event_for_luar_daerah(<<>>, "30/10/2026", "DO",
                                subs[i][2], "Pengerusi", cal_ok[i])
             rows[i \in 0..n] == IF i = 0 THEN <<>> ELSE rows[i - 1] \o row(i)
             events[i \in 0..n] == IF i = 0 THEN <<>> ELSE events[i - 1] \o event(i)
         IN /\ store = rows[n]
            /\ calendar = events[n]

NextDelete ==
  \/ \E urusan_rasmi \in {"Mesyuarat", "Mesyuarat Khas"} :
       call_delete_status("30/10/2026", "DO", urusan_rasmi)
  \/ \E s \in Sessions :
       \/ \E text \in {"Padam Jadual"} : admin_main_menu(s, text)
       \/ \E text \in {" 30/10/2026 ", "25/10/2026", "31/02/2027", "esok"} : admin_delete_date(s, text)
       \/ \E text \in Texts.officer : admin_delete_officer(s, text)
       \/ \E text \in {"Mesyuarat", "09:00-17:30: Mesyuarat", "LUAR DAERAH: Mesyuarat Khas", "Kembali ke Menu Utama"} : admin_delete_select_event(s, text)
       \/ \E text \in {"YA", "TIDAK"} : admin_delete_confirm(s, text)

SpecDelete == InitDelete /\ [][NextDelete]_vars

----------------------------------------------------------------------------
(* Properties *)

\* C1: in every conversation state, /cancel puts the session in the idle
\* state (no state handler takes a following text until /start) and empties
\* its session variables.
C1_CancelEndsConversation ==
  [][\A s \in Sessions :
       (cancel(s) /\ conv[s] # "END") => (conv'[s] = "END" /\ user_data'[s] = EmptyDict)]_vars

\* the pairs the deployment configures: a name and a password, both set
ConfiguredPairs ==
  { p \in { <<Env.ADMIN1_NAME, Env.ADMIN1_PASS>>, <<Env.ADMIN2_NAME, Env.ADMIN2_PASS>>,
            <<Env.ADMIN3_NAME, Env.ADMIN3_PASS>> } : p[1] # "" /\ p[2] # "" }

\* C2: in ADMIN_PASSWORD, a (stored username, typed password) pair that is
\* not a configured pair ends the conversation at once with the wrong-password
\* reply: the session does not enter ADMIN_MAIN_MENU, there is no second
\* attempt, and an ended session handles nothing but /start (and /cancel).
C2_MismatchEndsConversation ==
  [][\A s \in Sessions :
       /\ \A text \in RichTexts.password :
            ( /\ admin_password(s, text)
              /\ <<Get(user_data[s], "username", None), Strip(text)>> \notin ConfiguredPairs )
              => /\ conv'[s] = "END"
                 /\ last'.replies = <<Msg(MSG_WRONG_PASSWORD, NoMarkup)>>
       /\ (conv[s] = "END" /\ last'.sess = s) => last'.handler \in {"start", "cancel"}]_vars

\* a known username with a wrong password has ended the conversation
C2_Witness ==
  \E s \in Sessions :
    /\ last.sess = s
    /\ last.handler = "admin_password"
    /\ conv[s] = "END"
    /\ Get(user_data[s], "username", None) = "siti"

\* every LUAR DAERAH row of the store has both times empty
LuarDaerahRowsAllDay ==
  \A i \in 1..Len(store) : store[i][3] = "LUAR DAERAH" => (store[i][6] = "" /\ store[i][7] = "")

\* the calls of the last update that went to adapter op
CallsTo(update, op) == {i \in 1..Len(update.calls) : update.calls[i].op = op}

\* C3: the membership-status step with session location LUAR DAERAH never
\* invokes the timed calendar creation; the row it appends is the session's
\* date and officer with start_time = "" and end_time = "", and the all-day
\* calendar creation is invoked for that date and officer; every LUAR DAERAH
\* row of every reachable store has both times empty.
C3_LuarDaerahAllDay ==
  /\ []LuarDaerahRowsAllDay
  /\ [][\A s \in Sessions, text \in Texts.membership :
          ( /\ admin_membership_status(s, text)
            /\ Get(user_data[s], "lokasi", None) = "LUAR DAERAH" )
            => /\ CallsTo(last', "create_calendar_event_for_meeting") = {}
               /\ store' # store =>
                    /\ Len(store') = Len(store) + 1
                    /\ SubSeq(store', 1, Len(store)) = store
                    /\ LET row == store'[Len(store')] IN
                         /\ row[1] = user_data[s]["date"]
                         /\ row[2] = user_data[s]["officer"]
                         /\ row[3] = "LUAR DAERAH"
                         /\ row[6] = ""
                         /\ row[7] = ""
                    /\ \E i \in CallsTo(last', "create_calendar_event_for_luar_daerah") :
                         /\ last'.calls[i].args[1] = user_data[s]["date"]
                         /\ last'.calls[i].args[2] = user_data[s]["officer"]]_vars

\* a LUAR DAERAH submission has appended its row and asked for the all-day event
C3_Witness ==
  /\ last.handler = "admin_membership_status"
  /\ ~last.raised
  /\ Len(store) > 0
  /\ store[Len(store)][3] = "LUAR DAERAH"
  /\ CallsTo(last, "create_calendar_event_for_luar_daerah") # {}

\* u is two digits, a colon, two digits, with hour 00..23 and minute 00..59
ValidHHMM(u) ==
  /\ Len(u) = 5
  /\ Ch(u, 3) = ":"
  /\ \A i \in {1, 2, 4, 5} : Ch(u, i) \in {"0", "1", "2", "3", "4", "5", "6", "7", "8", "9"}
  /\ ToNat(SubSeq(u, 1, 2)) <= 23
  /\ ToNat(SubSeq(u, 4, 5)) <= 59

\* every KENINGAU row of the store has a valid start and a valid end time
KeningauRowsTimed ==
  \A i \in 1..Len(store) :
    store[i][3] = "KENINGAU" => (ValidHHMM(store[i][6]) /\ ValidHHMM(store[i][7]))

\* C4: a KENINGAU row is appended only by the end-time step, with the start
\* time the start-time step accepted for the submission and the end time just
\* accepted; the end-time state is entered only by the start-time step
\* accepting a valid time; every KENINGAU row of every reachable store has a
\* valid HH:MM start_time and end_time.
C4_KeningauNeedsBothTimes ==
  /\ []KeningauRowsTimed
  /\ [][\A s \in Sessions :
          /\ (conv'[s] = "ADMIN_OFFICIAL_BUSINESS_END" /\ conv[s] # "ADMIN_OFFICIAL_BUSINESS_END")
               => /\ last'.handler = "admin_official_business_start"
                  /\ Has(user_data'[s], "start_time")
                  /\ ValidHHMM(user_data'[s]["start_time"])
          /\ ( /\ last'.sess = s
               /\ Len(store') > Len(store)
               /\ store'[Len(store')][3] = "KENINGAU" )
               => /\ last'.handler = "admin_official_business_end"
                  /\ conv[s] = "ADMIN_OFFICIAL_BUSINESS_END"
                  /\ Has(user_data[s], "start_time")
                  /\ store'[Len(store')][6] = user_data[s]["start_time"]
                  /\ store'[Len(store')][7] = user_data'[s]["end_time"]
                  /\ ValidHHMM(store'[Len(store')][6])
                  /\ ValidHHMM(store'[Len(store')][7])]_vars

\* the end-time step has appended a KENINGAU row with both times
C4_Witness ==
  /\ last.handler = "admin_official_business_end"
  /\ ~last.raised
  /\ Len(store) > 0
  /\ store[Len(store)][3] = "KENINGAU"
  /\ store[Len(store)][6] = "09:00"
  /\ store[Len(store)][7] = "17:30"

\* the day text names when it parses as DD/MM/YYYY, NoDate when it does not
ParsedDate(text) == StrptimeDate(Strip(text))

\* C5: in ADMIN_DATE and STAFF_DATE, every text that parses as DD/MM/YYYY
\* and is strictly before today gets the past-date reply, stores nothing in
\* the session and leaves the session in the same state.
C5_PastDateRejected ==
  [][\A s \in Sessions, text \in RichTexts.date :
       (ParsedDate(text) # NoDate /\ DateLess(ParsedDate(text), today))
         => /\ admin_date(s, text)
                 => /\ last'.replies = <<Msg(MSG_ADMIN_PAST, NoMarkup)>>
                    /\ conv'[s] = "ADMIN_DATE"
                    /\ user_data'[s] = user_data[s]
            /\ staff_date(s, text)
                 => /\ last'.replies = <<Msg(MSG_STAFF_PAST, NoMarkup)>>
                    /\ conv'[s] = "STAFF_DATE"
                    /\ user_data'[s] = user_data[s]]_vars

\* d is a Saturday or a Sunday: 31/10/2026 is a Saturday
IsSaturdayOrSunday(d) ==
  (ToOrdinal(d) - ToOrdinal([y |-> 2026, m |-> 10, d |-> 31])) % 7 \in {0, 1}

C7_TimeValidation ==
  [][\A s \in Sessions, text \in RichTexts.time :
       /\ admin_official_business_start(s, text)
            => IF ValidHHMM(Strip(text))
               THEN /\ conv'[s] = "ADMIN_OFFICIAL_BUSINESS_END"
                    /\ user_data'[s] = Put(user_data[s], "start_time", Strip(text))
               ELSE /\ conv'[s] = "ADMIN_OFFICIAL_BUSINESS_START"
                    /\ last'.replies = <<Msg(MSG_START_TIME_FORMAT, NoMarkup)>>
                    /\ last'.calls = <<>>
                    /\ UNCHANGED <<user_data, store, calendar>>
       /\ admin_official_business_end(s, text)
            => IF ValidHHMM(Strip(text))
               THEN Get(user_data'[s], "end_time", None) = Strip(text)
               ELSE /\ conv'[s] = "ADMIN_OFFICIAL_BUSINESS_END"
                    /\ last'.replies = <<Msg(MSG_END_TIME_FORMAT, NoMarkup)>>
                    /\ last'.calls = <<>>
                    /\ UNCHANGED <<user_data, store, calendar>>]_vars

\* after 23:59 was accepted as start time, an end time was refused
C7_Witness ==
  \E s \in Sessions :
    /\ last.sess = s
    /\ last.handler = "admin_official_business_end"
    /\ last.replies = <<Msg(MSG_END_TIME_FORMAT, NoMarkup)>>
    /\ conv[s] = "ADMIN_OFFICIAL_BUSINESS_END"
    /\ Get(user_data[s], "start_time", None) = "23:59"
    /\ store = <<>>

\* the rows of sheet appended with date_str and officer_code, in the order of the sheet
RowsFor(sheet, date_str, officer_code) ==
  LET Same(row) == row[1] = date_str /\ row[2] = officer_code
  IN SelectSeq(sheet, Same)

\* the record of a row: every column with the text supplied when the row was appended
RecordOf(row) ==
  [k \in Range(Headers) |-> PyStr(row[CHOOSE j \in 1..Len(Headers) : Headers[j] = k])]

\* C8: query_status(date, officer) returns exactly the rows appended with
\* that date and officer and not deleted since, in insertion order, each with
\* the fields supplied at append time (so N rows after N such appends).
C8_QueryReturnsAppended ==
  last.handler = "query_status" =>
    LET rows == RowsFor(store, last.calls[1].args[1], last.calls[1].args[2])
    IN last.calls[1].ok = [i \in 1..Len(rows) |-> RecordOf(rows[i])]

\* C9: delete_status(date, officer, description) called while a row with
\* exactly these three fields is in the store returns true, and a following
\* query_status(date, officer) holds no row with that description; called
\* while no such row is in the store it returns false and leaves the store
\* as it was.
C9_DeleteContract ==
  [][\A date_str \in StoreArgs.date_str, officer_code \in StoreArgs.officer_code, urusan_rasmi \in StoreArgs.urusan_rasmi :
       call_delete_status(date_str, officer_code, urusan_rasmi)
         => IF \E i \in 1..Len(store) :
                 /\ store[i][1] = date_str
                 /\ store[i][2] = officer_code
                 /\ store[i][4] = urusan_rasmi
            THEN /\ last'.calls[1].ok = TRUE
                 /\ \A i \in 1..Len(store') :
                      ~(store'[i][1] = date_str /\ store'[i][2] = officer_code
                          /\ store'[i][4] = urusan_rasmi)
                 /\ LET found == query_status(store', date_str, officer_code)
                    IN \A i \in 1..Len(found) : found[i]["urusan rasmi"] # PyStr(urusan_rasmi)
            ELSE /\ last'.calls[1].ok = FALSE
                 /\ store' = store]_vars

\* a delete removed a row and left another one in the store
C9_Witness ==
  /\ last.handler = "delete_status"
  /\ last.calls[1].ok = TRUE
  /\ Len(store) = 1

\* C10: in STAFF_OFFICER with a date set, a valid officer with N >= 1 rows
\* in the store gets a reply of N blocks in storage order, each the row's
\* location, business description and membership status, a time line and a
\* delimiter line; with N = 0 the reply is the no-record message.
C10_OneBlockPerRow ==
  [][\A s \in Sessions, text \in RichTexts.staff :
       ( /\ staff_officer(s, text)
         /\ Has(user_data[s], "date")
         /\ officer_label_to_code(Strip(text)) # None
         /\ ~last'.raised )
         => LET rows == RowsFor(store, user_data[s]["date"], officer_label_to_code(Strip(text)))
                lines == SplitOn(last'.replies[1].text, "\n")
            IN IF Len(rows) = 0 THEN last'.replies[1].text = MSG_NO_RECORD
               ELSE /\ Len(lines) = 5 * Len(rows)
                    /\ \A i \in 1..Len(rows) :
                         /\ lines[5 * i - 4] = "Lokasi: " \o rows[i][3]
                         /\ lines[5 * i - 3] = "Urusan Rasmi: " \o rows[i][4]
                         /\ lines[5 * i - 2] = "Status Keahlian: " \o rows[i][5]
                         /\ SubSeq(lines[5 * i - 1], 1, 6) = "Masa: "
                         /\ lines[5 * i] = "---"]_vars

\* C11: in a staff query's reply, the time line of a KENINGAU row appended
\* with start time S and end time E (columns start_time and end_time) is
\* "Masa: S - E"; the line is "Masa: Sepanjang Hari" exactly for LUAR DAERAH
\* rows, and "Masa: Tidak dinyatakan" only for a row with neither time.
C11_TimeLineShowsRowTimes ==
  [][\A s \in Sessions, text \in RichTexts.staff :
       ( /\ staff_officer(s, text)
         /\ Has(user_data[s], "date")
         /\ officer_label_to_code(Strip(text)) # None
         /\ ~last'.raised )
         => LET rows == RowsFor(store, user_data[s]["date"], officer_label_to_code(Strip(text)))
                lines == SplitOn(last'.replies[1].text, "\n")
            IN Len(rows) > 0 =>
                 /\ Len(lines) = 5 * Len(rows)
                 /\ \A i \in 1..Len(rows) :
                      LET line == lines[5 * i - 1] IN
                      /\ (rows[i][3] = "KENINGAU" /\ rows[i][6] # "" /\ rows[i][7] # "")
                           => line = "Masa: " \o rows[i][6] \o " - " \o rows[i][7]
                      /\ line = "Masa: Sepanjang Hari" <=> rows[i][3] = "LUAR DAERAH"
                      /\ line = "Masa: Tidak dinyatakan" => (rows[i][6] = "" /\ rows[i][7] = "")]_vars

\* C12: an affirmative answer in ADMIN_DELETE_CONFIRM, with the selected
\* record in the session, attempts both the store deletion and the calendar
\* search-and-delete whatever the other's outcome: the calendar deletion is
\* called also when the store deletion returns false or raises, and the rows
\* the store deletion removed stay removed when the calendar deletion fails.
C12_BothDeletionsAttempted ==
  [][\A s \in Sessions, text \in Texts.yes_no :
       ( /\ admin_delete_confirm(s, text)
         /\ Upper(Strip(text)) = "YA"
         /\ HasAll(user_data[s], {"delete_selected", "delete_date", "delete_officer"}) )
         => /\ CallsTo(last', "delete_status") # {}
            /\ CallsTo(last', "delete_calendar_events") # {}
            /\ \A i \in CallsTo(last', "delete_status") :
                 last'.calls[i].ok =>
                   /\ Len(store') < Len(store)
                   /\ \A j \in 1..Len(store') :
                        ~RowMatches(store'[j], user_data[s]["delete_date"],
                                    user_data[s]["delete_officer"], last'.calls[i].args[3])]_vars

\* C13: when the store append of a submission step fails (save_status
\* raises in the membership-status step with LUAR DAERAH or in the end-time
\* step), the operator gets a reply and the session is in
\* ADMIN_CONTINUE_DECISION after the step.
C13_AppendFailureReported ==
  [][\A s \in Sessions :
       ( /\ last'.sess = s
         /\ last'.handler \in {"admin_membership_status", "admin_official_business_end"}
         /\ \E i \in CallsTo(last', "save_status") : ~last'.calls[i].ok )
         => /\ Len(last'.replies) > 0
            /\ conv'[s] = "ADMIN_CONTINUE_DECISION"]_vars

\* the qualified-success replies of the two submission steps
QualifiedSuccess ==
  [admin_membership_status |->
     "Status LUAR DAERAH berjaya dikemaskini. (Gagal menambah acara sepanjang hari ke Calendar - semak konfigurasi.)\n\nTerima kasih.",
   admin_official_business_end |->
     "Status berjaya dikemaskini. (Gagal menambah acara ke Calendar - semak konfigurasi.)\n\nTerima kasih."]

\* C14: a submission step whose calendar creation returns false appends its
\* row once and keeps it (the store is the old store with the row at its end,
\* one append and one creation were called, no event is added), replies with
\* the qualified-success message and the continue prompt, and leaves the
\* session in ADMIN_CONTINUE_DECISION; no later step of the submission flow
\* removes or changes a row of the store.
C14_CalendarFailureKeepsRow ==
  [][/\ Len(store') >= Len(store)
     /\ SubSeq(store', 1, Len(store)) = store
     /\ \A s \in Sessions :
          ( /\ last'.sess = s
            /\ last'.handler \in DOMAIN QualifiedSuccess
            /\ \E i \in 1..Len(last'.calls) :
                 /\ last'.calls[i].op \in {"create_calendar_event_for_luar_daerah",
                                           "create_calendar_event_for_meeting"}
                 /\ ~last'.calls[i].ok )
            => /\ Len(store') = Len(store) + 1
               /\ store'[Len(store')][1] = user_data'[s]["date"]
               /\ store'[Len(store')][2] = user_data'[s]["officer"]
               /\ store'[Len(store')][4] = user_data'[s]["urusan_rasmi"]
               /\ Len(last'.calls) = 2
               /\ last'.calls[1].op = "save_status"
               /\ last'.calls[1].ok = TRUE
               /\ calendar' = calendar
               /\ last'.replies = << Msg(QualifiedSuccess[last'.handler], ReplyKeyboardRemove),
                                     prompt_admin_continue >>
               /\ conv'[s] = "ADMIN_CONTINUE_DECISION"]_vars

\* the end-time step appended a KENINGAU row while its calendar creation failed
C14_Witness ==
  \E s \in Sessions :
    /\ last.sess = s
    /\ last.handler = "admin_official_business_end"
    /\ Len(last.calls) = 2
    /\ last.calls[2].ok = FALSE
    /\ Len(store) = 1
    /\ store[1][3] = "KENINGAU"
    /\ calendar = <<>>
    /\ conv[s] = "ADMIN_CONTINUE_DECISION"

C16_OneUpdateAtATime ==
  /\ [](Len(store) <= 1)
  /\ [][\A s \in Sessions, text \in {"Pengerusi", "Ahli Biasa", "Perasmi"} :
          process_update(s, text)
            => \A i \in 1..Len(event_loop) : event_loop[i].sess # s]_vars

\* the adapter functions that change the store or the calendar
Mutators ==
  {"save_status", "delete_status", "create_calendar_event_for_meeting",
   "create_calendar_event_for_luar_daerah", "delete_calendar_events"}

\* the step re-prompts session s: same state, conversation not ended, store
\* and calendar as they were, no call of an adapter function that changes them
Reprompted(s) ==
  /\ conv'[s] = conv[s]
  /\ conv'[s] # "END"
  /\ store' = store
  /\ calendar' = calendar
  /\ \A i \in 1..Len(last'.calls) : last'.calls[i].op \notin Mutators

\* the labels of the three officers
OfficerLabels == {OFFICERS[i][1] : i \in 1..Len(OFFICERS)}

\* text is no date of entry: not DD/MM/YYYY, before today, or a Saturday or Sunday
InvalidEntryDate(text) ==
  \/ ParsedDate(text) = NoDate
  \/ DateLess(ParsedDate(text), today)
  \/ IsSaturdayOrSunday(ParsedDate(text))

\* the labels AdminDeleteSelectEvent offers to session s
OfferedLabels(s) ==
  LET records == Get(user_data[s], "delete_records", <<>>)
  IN {Fmt(display_text(records[i])) : i \in 1..Len(records)} \cup {"Kembali ke Menu Utama"}

\* C17: in every state that validates its input, an input that (trimmed, and
\* upper-cased where the state compares upper-cased text) is none of the
\* state's labels, no date of entry, no DD/MM/YYYY date or no HH:MM time
\* leaves the session in the same state, does not end the conversation and
\* makes no store append, store delete, calendar create or calendar delete.
C17_InvalidInputReprompts ==
  [][\A s \in Sessions :
       /\ \A text \in Texts.role :
            (choose_role(s, text) /\ Strip(text) \notin {"Kakitangan Admin", "Kakitangan Biasa"})
              => Reprompted(s)
       /\ \A text \in Texts.menu :
            (admin_main_menu(s, text)
               /\ Strip(text) \notin {"Kemaskini Jadual", "Padam Jadual", "Selesai"})
              => Reprompted(s)
       /\ \A text \in Texts.date :
            ((admin_date(s, text) \/ staff_date(s, text)) /\ InvalidEntryDate(text))
              => Reprompted(s)
       /\ \A text \in Texts.officer :
            ((admin_officer(s, text) \/ admin_delete_officer(s, text))
               /\ Strip(text) \notin OfficerLabels)
              => Reprompted(s)
       /\ \A text \in Texts.location :
            (admin_location(s, text) /\ Upper(Strip(text)) \notin {"KENINGAU", "LUAR DAERAH"})
              => Reprompted(s)
       /\ \A text \in Texts.start_time :
            (admin_official_business_start(s, text) /\ ~ValidHHMM(Strip(text))) => Reprompted(s)
       /\ \A text \in Texts.end_time :
            (admin_official_business_end(s, text) /\ ~ValidHHMM(Strip(text))) => Reprompted(s)
       /\ \A text \in Texts.yes_no :
            ((admin_continue_decision(s, text) \/ admin_delete_confirm(s, text))
               /\ Upper(Strip(text)) \notin {"YA", "TIDAK"})
              => Reprompted(s)
       /\ \A text \in Texts.delete_date :
            (admin_delete_date(s, text) /\ ParsedDate(text) = NoDate) => Reprompted(s)
       /\ \A text \in Texts.select :
            (admin_delete_select_event(s, text) /\ Strip(text) \notin OfferedLabels(s))
              => Reprompted(s)
       /\ \A text \in Texts.staff :
            (staff_officer(s, text)
               /\ Strip(text) \notin OfficerLabels
                    \cup {"Semak Pegawai Lain", "Ubah Tarikh Semakan", "Semakan Tamat"})
              => Reprompted(s)]_vars

\* a text that is neither YA nor TIDAK was refused in ADMIN_DELETE_CONFIRM
\* while the selected row is in the store
C17_Witness ==
  \E s \in Sessions :
    /\ last.sess = s
    /\ last.handler = "admin_delete_confirm"
    /\ last.replies = <<Msg("Sila pilih YA atau TIDAK.", yes_no_keyboard)>>
    /\ conv[s] = "ADMIN_DELETE_CONFIRM"
    /\ Len(store) = 1

\* C18: every submission step that completes its append (LUAR DAERAH or
\* KENINGAU, with the calendar creation succeeding or failing) leaves the
\* session in ADMIN_CONTINUE_DECISION; there YA leads to ADMIN_DATE and TIDAK
\* to ADMIN_MAIN_MENU, and neither ends the conversation, changes the store or
\* the calendar, or calls an adapter.
C18_SubmissionThenContinue ==
  [][\A s \in Sessions :
       /\ (last'.sess = s /\ Len(store') > Len(store))
            => /\ last'.handler \in {"admin_membership_status", "admin_official_business_end"}
               /\ store'[Len(store')][3] \in {"LUAR DAERAH", "KENINGAU"}
               /\ conv'[s] = "ADMIN_CONTINUE_DECISION"
       /\ \A text \in Texts.yes_no :
            (admin_continue_decision(s, text) /\ Upper(Strip(text)) \in {"YA", "TIDAK"})
              => /\ conv'[s] = (IF Upper(Strip(text)) = "YA" THEN "ADMIN_DATE" ELSE "ADMIN_MAIN_MENU")
                 /\ store' = store
                 /\ calendar' = calendar
                 /\ last'.calls = <<>>]_vars

\* after a submission whose calendar creation failed, TIDAK led to the main menu
C18_Witness ==
  \E s \in Sessions :
    /\ last.sess = s
    /\ last.handler = "admin_continue_decision"
    /\ conv[s] = "ADMIN_MAIN_MENU"
    /\ Len(store) = 1
    /\ calendar = <<>>

\* the states of the staff branch
StaffStates == {"STAFF_DATE", "STAFF_OFFICER"}

PostLogin ==
  {"ADMIN_MAIN_MENU", "ADMIN_DATE", "ADMIN_OFFICER", "ADMIN_LOCATION", "ADMIN_OFFICIAL_BUSINESS",
   "ADMIN_MEMBERSHIP_STATUS", "ADMIN_OFFICIAL_BUSINESS_START", "ADMIN_OFFICIAL_BUSINESS_END",
   "ADMIN_CONTINUE_DECISION", "ADMIN_DELETE_DATE", "ADMIN_DELETE_OFFICER",
   "ADMIN_DELETE_SELECT_EVENT", "ADMIN_DELETE_CONFIRM"}

\* C20: a step that appends to or deletes from the store, creates or deletes
\* a calendar event, or calls the adapter function for it, is a step of a
\* session in a state after login; a session enters these states only by
\* admin_password accepting a configured pair in ADMIN_PASSWORD, which is
\* entered only from ADMIN_USERNAME, which is entered only by the role
\* selection choosing admin; /start always leads back to the role selection.
\* So the session's latest role selection was admin and it passed the
\* credential check after its latest /start.
C20_OnlyAdminsMutate ==
  [][\A s \in Sessions :
       /\ ( /\ last'.sess = s
            /\ \/ store' # store
               \/ calendar' # calendar
               \/ \E i \in 1..Len(last'.calls) : last'.calls[i].op \in Mutators )
            => conv[s] \in PostLogin
       /\ (conv'[s] \in PostLogin /\ conv[s] \notin PostLogin)
            => \E text \in Texts.password :
                 /\ admin_password(s, text)
                 /\ <<Get(user_data[s], "username", None), Strip(text)>> \in ConfiguredPairs
       /\ (conv'[s] = "ADMIN_PASSWORD" /\ conv[s] # "ADMIN_PASSWORD")
            => conv[s] = "ADMIN_USERNAME"
       /\ (conv'[s] = "ADMIN_USERNAME" /\ conv[s] # "ADMIN_USERNAME")
            => /\ conv[s] = "CHOOSE_ROLE"
               /\ last'.handler = "choose_role"
               /\ user_data'[s] = [role |-> "admin"]
       /\ start(s) => conv'[s] = "CHOOSE_ROLE"
       /\ (last'.sess = s /\ last'.handler = "choose_role") => conv[s] = "CHOOSE_ROLE"]_vars

\* an administrator who logged in, sent /cancel and went on has deleted a row
C20_Witness ==
  \E s \in Sessions :
    /\ last.sess = s
    /\ last.handler = "admin_delete_confirm"
    /\ \E i \in CallsTo(last, "delete_status") : last.calls[i].ok
    /\ ~Has(user_data[s], "is_admin")
    /\ store = <<>>

\* C29: the username step answers every name, configured or not, with the
\* same reply and the same next state (ADMIN_PASSWORD), and the password step
\* answers every pair that is not configured, whether its name is configured
\* or not, with the same reply and the same next state (the conversation
\* ends), leaving the session's data as it was: what the operator sees does
\* not depend on whether the name is configured.
C29_LoginRevealsNoName ==
  [][\A s \in Sessions :
       /\ \A text \in RichTexts.username :
            admin_username(s, text)
              => /\ conv'[s] = "ADMIN_PASSWORD"
                 /\ last'.replies = <<Msg("Sila masukkan kata laluan:", NoMarkup)>>
                 /\ last'.calls = <<>>
       /\ \A text \in RichTexts.password :
            ( /\ admin_password(s, text)
              /\ \/ Get(user_data[s], "username", None) \notin {p[1] : p \in ConfiguredPairs}
                 \/ <<Get(user_data[s], "username", None), Strip(text)>> \notin ConfiguredPairs )
              => /\ conv'[s] = "END"
                 /\ last'.replies = <<Msg("Kata laluan salah. Sila /start semula.", NoMarkup)>>
                 /\ last'.calls = <<>>
                 /\ user_data'[s] = user_data[s]]_vars

\* a name that is not configured went through the username step and was
\* refused at the password step
C29_Witness ==
  \E s \in Sessions :
    /\ last.sess = s
    /\ last.handler = "admin_password"
    /\ conv[s] = "END"
    /\ Has(user_data[s], "username")
    /\ user_data[s]["username"] \notin {p[1] : p \in ConfiguredPairs}

\* the rows of sheet whose date, officer and description are exactly these texts
SameThree(sheet, date_str, officer_code, urusan_rasmi) ==
  {i \in 1..Len(sheet) :
     sheet[i][1] = date_str /\ sheet[i][2] = officer_code /\ sheet[i][4] = urusan_rasmi}

\* C23: delete_status(date, officer, description) removes every row whose
\* three fields are exactly these, duplicates included, and nothing else: the
\* store afterwards is the rows that differ in at least one of the three
\* fields, each with all its fields and in the order they had.
C23_DeleteFrame ==
  [][\A date_str \in StoreArgs.date_str, officer_code \in StoreArgs.officer_code, urusan_rasmi \in StoreArgs.urusan_rasmi :
       call_delete_status(date_str, officer_code, urusan_rasmi)
         => LET gone == SameThree(store, date_str, officer_code, urusan_rasmi)
                kept == (1..Len(store)) \ gone
                rank(i) == Cardinality({j \in kept : j <= i})
            IN /\ Len(store') = Cardinality(kept)
               /\ \A i \in kept : store'[rank(i)] = store[i]
               /\ SameThree(store', date_str, officer_code, urusan_rasmi) = {}]_vars

\* a delete removed a row and left the row that has the same date and
\* officer and another description
C23_Witness ==
  /\ last.handler = "delete_status"
  /\ last.calls[1].ok = TRUE
  /\ Len(store) = 1
  /\ last.calls[1].args[1] = store[1][1]
  /\ last.calls[1].args[2] = store[1][2]
  /\ last.calls[1].args[3] # store[1][4]

\* the handlers that complete a submission
SubmissionHandlers == {"admin_membership_status", "admin_official_business_end"}

\* C26: a step of a handler that completes a submission calls nothing (the
\* input was refused or the time is still to be asked), or calls save_status
\* alone, which raises, and store and calendar stay as they were, or calls
\* save_status, which appends one row, and after it one calendar creation,
\* which adds one event or, failing, none; the calendar changes only in a step
\* that appended a row.
C26_AppendThenCalendar ==
  [][\A s \in Sessions :
       /\ (last'.sess = s /\ last'.handler \in SubmissionHandlers)
            => LET calls == last'.calls IN
               \/ calls = <<>> /\ store' = store /\ calendar' = calendar
               \/ /\ Len(calls) = 1
                  /\ calls[1].op = "save_status" /\ ~calls[1].ok
                  /\ last'.raised
                  /\ store' = store /\ calendar' = calendar
               \/ /\ Len(calls) = 2
                  /\ calls[1].op = "save_status" /\ calls[1].ok
                  /\ calls[2].op \in {"create_calendar_event_for_luar_daerah", "create_calendar_event_for_meeting"}
                  /\ Len(store') = Len(store) + 1
                  /\ SubSeq(store', 1, Len(store)) = store
                  /\ IF calls[2].ok
                     THEN Len(calendar') = Len(calendar) + 1 /\ SubSeq(calendar', 1, Len(calendar)) = calendar
                     ELSE calendar' = calendar
       /\ calendar' # calendar => Len(store') = Len(store) + 1]_vars

\* a submission appended its row and then created its event
C26_Witness ==
  /\ last.handler \in SubmissionHandlers
  /\ Len(last.calls) = 2
  /\ last.calls[1].op = "save_status"
  /\ last.calls[2].ok
  /\ Len(store) = 1
  /\ Len(calendar) = 1

\* C28: every row of the store names as its submitter the name the session
\* logged in with; in this specification every login is made with "siti"
C28_SubmitterIsLoginName ==
  \A i \in 1..Len(store) : store[i][8] = "siti"

\* C24: every row of the store has one of the three officer codes, the
\* location KENINGAU or LUAR DAERAH, and a date that parses, falls on Monday
\* to Friday and is not before the day on which it was entered.
C24_RowsWellFormed ==
  \A i \in 1..Len(store) :
    LET d == StrptimeDate(store[i][1]) IN
    /\ store[i][2] \in {OFFICERS[k][2] : k \in 1..Len(OFFICERS)}
    /\ store[i][3] \in {"KENINGAU", "LUAR DAERAH"}
    /\ d # NoDate
    /\ Weekday(d) <= 4
    /\ ~DateLess(d, today)

\* a row was appended for today, with the location typed in small letters
C24_Witness ==
  /\ Len(store) = 1
  /\ StrptimeDate(store[1][1]) = today
  /\ store[1][3] = "LUAR DAERAH"
  /\ last.handler = "admin_membership_status"

\* C25: the membership status of every row of the store is one of the labels
\* of the membership keyboard
C25_MembershipEnumerated ==
  \A i \in 1..Len(store) : store[i][5] \in Range(membership_status_keyboard.labels)

\* the label the delete flow is to offer for a row of the sheet
RowLabel(row) ==
  IF row[3] = "LUAR DAERAH" THEN "LUAR DAERAH: " \o row[4]
  ELSE IF row[6] # "" /\ row[7] # "" THEN row[6] \o "-" \o row[7] \o ": " \o row[4]
  ELSE row[4]

\* C21: admin_delete_officer offers, for the rows of the date and the
\* officer in storage order, the labels "LUAR DAERAH: <description>" for a
\* LUAR DAERAH row and "<start>-<end>: <description>" for a row with both
\* times, and admin_delete_select_event goes on to the confirmation exactly
\* when the typed text is the label of one of the records offered.
C21_DeleteLabels ==
  [][\A s \in Sessions :
       /\ \A text \in Texts.officer :
            (admin_delete_officer(s, text) /\ conv'[s] = "ADMIN_DELETE_SELECT_EVENT")
              => LET rows == RowsFor(store, user_data'[s]["delete_date"], user_data'[s]["delete_officer"])
                 IN last'.replies[1].markup.labels
                      = [i \in 1..Len(rows) |-> RowLabel(rows[i])] \o <<"Kembali ke Menu Utama">>
       /\ \A text \in {"Mesyuarat", "09:00-17:30: Mesyuarat", "LUAR DAERAH: Mesyuarat Khas"} :
            (admin_delete_select_event(s, text) /\ ~last'.raised)
              => LET records == Get(user_data[s], "delete_records", <<>>)
                 IN (conv'[s] = "ADMIN_DELETE_CONFIRM")
                      <=> \E i \in 1..Len(records) :
                            text = RowLabel([k \in 1..Len(Headers) |-> Fmt(records[i][Headers[k]])])]_vars

\* C22: admin_delete_date takes every text that parses as DD/MM/YYYY, a date
\* before today, a Saturday and a Sunday too, stores it and goes on to
\* ADMIN_DELETE_OFFICER; text that does not parse is answered with the format
\* message and the session stays in ADMIN_DELETE_DATE.
C22_DeleteDateUnfiltered ==
  [][\A s \in Sessions :
       \A text \in {" 30/10/2026 ", "25/10/2026", "31/02/2027", "esok"} :
         admin_delete_date(s, text)
           => IF StrptimeDate(Strip(text)) # NoDate
              THEN /\ conv'[s] = "ADMIN_DELETE_OFFICER"
                   /\ Has(user_data'[s], "delete_date")
                   /\ \E padYear \in PadYearBuilds :
                        user_data'[s]["delete_date"] = StrftimeDate(StrptimeDate(Strip(text)), padYear)
              ELSE /\ conv'[s] = "ADMIN_DELETE_DATE"
                   /\ user_data'[s] = user_data[s]
                   /\ last'.replies = <<Msg(MSG_DATE_FORMAT, NoMarkup)>>]_vars

\* a date before today was taken: the session is asked for the officer
C22_Witness ==
  \E s \in Sessions :
    /\ last.sess = s
    /\ last.handler = "admin_delete_date"
    /\ conv[s] = "ADMIN_DELETE_OFFICER"
    /\ Has(user_data[s], "delete_date")
    /\ StrptimeDate(user_data[s]["delete_date"]) # NoDate
    /\ DateLess(StrptimeDate(user_data[s]["delete_date"]), today)
    /\ IsSaturdayOrSunday(StrptimeDate(user_data[s]["delete_date"]))

\* event was created for a record with the description urusan_rasmi
EventOf(event, urusan_rasmi) ==
  LET head == "Urusan Rasmi: " \o urusan_rasmi \o "\nStatus Keahlian: "
  IN Len(event.description) >= Len(head) /\ SubSeq(event.description, 1, Len(head)) = head

\* C27: a confirmed delete of the record with description D leaves in the
\* calendar every event that was created for a record with another
\* description.
C27_DeleteKeepsOtherEvents ==
  [][\A s \in Sessions :
       (admin_delete_confirm(s, "YA") /\ ~last'.raised)
         => LET D == Fmt(DictGet(user_data[s]["delete_selected"], "urusan rasmi", PyStr("")))
            IN \A i \in 1..Len(calendar) :
                 ~EventOf(calendar[i], D) => \E j \in 1..Len(calendar') : calendar'[j] = calendar[i]]_vars

\* C30: the reply to a confirmed delete says "Gagal memadam rekod" only when
\* the step removed no row and no event, and says that the event was deleted
\* from the calendar only when the step removed an event.
C30_DeleteReplyTruthful ==
  [][\A s \in Sessions :
       (admin_delete_confirm(s, "YA") /\ ~last'.raised)
         => LET reply == last'.replies[1].text
            IN /\ reply = "Gagal memadam rekod. Sila cuba lagi."
                    => (store' = store /\ calendar' = calendar)
               /\ Contains(reply, "Acara juga berjaya dipadam dari kalendar")
                    => Len(calendar') < Len(calendar)]_vars

\* the session variables an earlier flow of the dialogue leaves behind
EarlierFlowFields ==
  {"username", "is_admin", "date", "officer", "lokasi", "urusan_rasmi",
   "status_keahlian", "start_time", "end_time", "delete_date", "delete_officer",
   "delete_records", "delete_selected", "checked_once"}

\* C33: immediately after choose_role has handled a valid role label the
\* session variables are the role and nothing else, whatever an earlier flow
\* of the same session left in them before the /start, so no field of an
\* earlier flow survives the role selection; and in every reachable state a
\* session whose role is staff does not carry is_admin.
C33_RoleSelectionClears ==
  /\ [](\A s \in Sessions :
          Get(user_data[s], "role", None) = "staff" => ~Has(user_data[s], "is_admin"))
  /\ [][\A s \in Sessions : \A text \in {"Kakitangan Admin", "Kakitangan Biasa"} :
          choose_role(s, text)
            => /\ user_data'[s] = [role |-> IF Strip(text) = "Kakitangan Admin" THEN "admin" ELSE "staff"]
               /\ DOMAIN user_data'[s] \cap EarlierFlowFields = {}]_vars

\* an administrator who logged in and stored a row has sent /start and chosen
\* the staff role: the session holds the role only
C33_Witness ==
  \E s \in Sessions :
    /\ last.sess = s
    /\ last.handler = "choose_role"
    /\ conv[s] = "STAFF_DATE"
    /\ user_data[s] = [role |-> "staff"]
    /\ Len(store) = 1

\* C32: answering TIDAK in ADMIN_DELETE_CONFIRM, choosing "Kembali ke Menu
\* Utama" in ADMIN_DELETE_SELECT_EVENT, and naming in ADMIN_DELETE_OFFICER an
\* officer for whom the store answers with no record on the chosen date, each
\* lead the session to ADMIN_MAIN_MENU, leave the store and the calendar as
\* they were and call no deleting adapter function.
C32_DeleteBackOut ==
  [][\A s \in Sessions :
       LET backed_out == /\ conv'[s] = "ADMIN_MAIN_MENU"
                         /\ store' = store
                         /\ calendar' = calendar
                         /\ \A i \in 1..Len(last'.calls) : last'.calls[i].op \notin Mutators
       IN
       /\ \A text \in {"YA", "TIDAK"} :
            (admin_delete_confirm(s, text) /\ Upper(Strip(text)) = "TIDAK") => backed_out
       /\ \A text \in {"Mesyuarat", "09:00-17:30: Mesyuarat", "LUAR DAERAH: Mesyuarat Khas", "Kembali ke Menu Utama"} :
            (admin_delete_select_event(s, text) /\ Strip(text) = "Kembali ke Menu Utama") => backed_out
       /\ \A text \in Texts.officer :
            ( /\ admin_delete_officer(s, text)
              /\ ~last'.raised
              /\ officer_label_to_code(Strip(text)) # None
              /\ query_status(store, user_data[s]["delete_date"], officer_label_to_code(Strip(text))) = <<>> )
              => backed_out]_vars

\* the administrator answered TIDAK for a stored record that has an event:
\* the session is at the main menu, the row and the event are still there
C32_Witness ==
  \E s \in Sessions :
    /\ last.sess = s
    /\ last.handler = "admin_delete_confirm"
    /\ ~last.raised
    /\ last.replies[1].text = "Pemadaman dibatalkan."
    /\ conv[s] = "ADMIN_MAIN_MENU"
    /\ delete_status_result(store, user_data[s]["delete_date"], user_data[s]["delete_officer"],
                            DictGet(user_data[s]["delete_selected"], "urusan rasmi", PyStr("")))
    /\ calendar # <<>>

----------------------------------------------------------------------------
(* The calendar functions called by themselves *)

\* events the calendar holds at most when the calendar functions are called by themselves
MaxCreated == 2

\* A call is recorded with the value the function handed back and with
\* whether it got as far as _get_calendar_service().

call_create_calendar_event_for_meeting(date_str, start_time, officer_code, urusan_rasmi) ==
  /\ Len(calendar) < MaxCreated
  /\ LET args == <<date_str, officer_code, urusan_rasmi>>
         cal_id == get_calendar_id_for_officer(officer_code)
     IN IF cal_id = None
        THEN /\ calendar' = calendar
             /\ last' = Called("create_calendar_event_for_meeting", args, [returned |-> FALSE, service |-> FALSE])
        ELSE \E serviceOk \in BOOLEAN :
               /\ calendar' = create_calendar_event_for_meeting(calendar, date_str, start_time, "17:30",
                                officer_code, "KENINGAU", urusan_rasmi, "Pengerusi", serviceOk)
               /\ last' = Called("create_calendar_event_for_meeting", args,
                                 [returned |-> create_calendar_event_for_meeting_result(date_str, start_time,
                                                  "17:30", officer_code, serviceOk),
                                  service |-> TRUE])
  /\ UNCHANGED <<conv, user_data, store, today, event_loop>>

call_create_calendar_event_for_luar_daerah(date_str, officer_code, urusan_rasmi) ==
  /\ Len(calendar) < MaxCreated
  /\ LET args == <<date_str, officer_code, urusan_rasmi>>
         cal_id == get_calendar_id_for_officer(officer_code)
     IN IF cal_id = None
        THEN /\ calendar' = calendar
             /\ last' = Called("create_calendar_event_for_luar_daerah", args, [returned |-> FALSE, service |-> FALSE])
        ELSE \E serviceOk \in BOOLEAN :
               /\ calendar' = create_calendar_event_for_luar_daerah(calendar, date_str, officer_code,
                                urusan_rasmi, "Pengerusi", serviceOk)
               /\ last' = Called("create_calendar_event_for_luar_daerah", args,
                                 [returned |-> create_calendar_event_for_luar_daerah_result(date_str,
                                                  officer_code, serviceOk),
                                  service |-> TRUE])
  /\ UNCHANGED <<conv, user_data, store, today, event_loop>>

call_delete_calendar_events(date_str, officer_code, urusan_rasmi) ==
  /\ LET args == <<date_str, officer_code, urusan_rasmi>>
         cal_id == get_calendar_id_for_officer(officer_code)
     IN IF cal_id = None
        THEN /\ calendar' = calendar
             /\ last' = Called("delete_calendar_events", args, [returned |-> FALSE, service |-> FALSE])
        ELSE \E serviceOk \in BOOLEAN :
               \E gone \in DeletableSets(calendar, date_str, officer_code, urusan_rasmi, serviceOk) :
                 /\ calendar' = delete_calendar_events(calendar, gone)
                 /\ last' = Called("delete_calendar_events", args,
                                   [returned |-> delete_calendar_events_result(gone), service |-> TRUE])
  /\ UNCHANGED <<conv, user_data, store, today, event_loop>>

NextCalendar ==
  \E date_str \in {"30/10/2026", "esok"}, officer_code \in {"DO", "ADO_PENTADBIRAN"} :
    \/ \E start_time \in {"09:00", "9 pagi"}, urusan_rasmi \in {"Mesyuarat", "Mesyuarat Khas"} :
         call_create_calendar_event_for_meeting(date_str, start_time, officer_code, urusan_rasmi)
    \/ \E urusan_rasmi \in {"Mesyuarat", "Mesyuarat Khas"} :
         call_create_calendar_event_for_luar_daerah(date_str, officer_code, urusan_rasmi)
    \/ \E urusan_rasmi \in {PyStr("Mesyuarat"), PyStr("Mesyuarat Khas"), PyInt("7")} :
         call_delete_calendar_events(date_str, officer_code, urusan_rasmi)

SpecCalendar == Init /\ [][NextCalendar]_vars

\* the calendar functions
CalendarFunctions ==
  {"create_calendar_event_for_meeting", "create_calendar_event_for_luar_daerah", "delete_calendar_events"}

\* C34: a call of a calendar function hands a boolean back to its caller for
\* every argument, also for a date or a time that does not parse, a
\* description that is a number and a service that fails; when the officer
\* has no calendar id it hands back False without getting to the calendar
\* service; whenever it hands back False for a creation the calendar is as it
\* was, and a creation that hands back True has added one event;
\* delete_calendar_events leaves the calendar with some of the matching
\* events removed and hands back True exactly when it removed at least one.
C34_CalendarAdapterReturns ==
  [][\A op \in CalendarFunctions :
       last'.handler = op =>
         LET call == last'.calls[1]
             date_str == call.args[1]
             officer_code == call.args[2]
             urusan_rasmi == call.args[3]
         IN /\ ~last'.raised
            /\ call.ok.returned \in BOOLEAN
            /\ get_calendar_id_for_officer(officer_code) = None
                 => /\ ~call.ok.returned
                    /\ ~call.ok.service
                    /\ calendar' = calendar
            /\ op # "delete_calendar_events"
                 => IF call.ok.returned
                    THEN Len(calendar') = Len(calendar) + 1 /\ SubSeq(calendar', 1, Len(calendar)) = calendar
                    ELSE calendar' = calendar
            /\ op = "delete_calendar_events"
                 => /\ call.ok.returned <=> Len(calendar') < Len(calendar)
                    /\ \E gone \in SUBSET MatchingEvents(calendar, date_str, officer_code, urusan_rasmi) :
                         calendar' = delete_calendar_events(calendar, gone)]_vars

\* of two events that matched, one was removed and one is still there (its
\* removal failed): delete_calendar_events handed back True
C34_Witness ==
  /\ last.handler = "delete_calendar_events"
  /\ last.calls[1].ok.returned
  /\ Len(calendar) = 1
  /\ MatchingEvents(calendar, last.calls[1].args[1], last.calls[1].args[2], last.calls[1].args[3]) = {1}

----------------------------------------------------------------------------
(* Two administrators in the delete flow *)

\* Two chats of logged-in administrators who chose "Padam Jadual"; the sheet
\* holds a LUAR DAERAH row of the Pegawai Daerah on 30/10/2026 with its
\* event, and a second row with another description.
InitPairDelete ==
  /\ conv = [s \in Pair |-> "ADMIN_DELETE_DATE"]
  /\ user_data = [s \in Pair |-> LoggedIn]
  /\ today = Today0
  /\ last = NoUpdate
  /\ event_loop = <<>>
  /\ \E urusan_rasmi \in {"Mesyuarat", "007"} :
       /\ store = save_status(
                    save_status(<<>>, "30/10/2026", "DO", "LUAR DAERAH", urusan_rasmi, "Pengerusi",
                                "", "", "siti", today),
                    "30/10/2026", "DO", "KENINGAU", "Taklimat", "Ahli", "09:00", "17:30", "siti", today)
       /\ calendar = create_calendar_event_for_luar_daerah(<<>>, "30/10/2026", "DO",
                       urusan_rasmi, "Pengerusi", TRUE)

NextPairDelete ==
  \E s \in Pair :
    \/ \E text \in {"Padam Jadual"} : admin_main_menu(s, text)
    \/ \E text \in {"30/10/2026"} : admin_delete_date(s, text)
    \/ \E text \in {"Pegawai Daerah"} : admin_delete_officer(s, text)
    \/ \E text \in {"LUAR DAERAH: Mesyuarat", "LUAR DAERAH: 7", "Taklimat", "Kembali ke Menu Utama"} : admin_delete_select_event(s, text)
    \/ \E text \in {"YA", "TIDAK"} : admin_delete_confirm(s, text)

SpecPairDelete == InitPairDelete /\ [][NextPairDelete]_vars

\* the rows of the sheet whose record is the one session s selected
SelectedRows(sheet, s) ==
  {i \in 1..Len(sheet) : get_all_records(sheet)[i] = user_data[s]["delete_selected"]}

\* C31: two administrators have listed and selected the same record, and
\* the other one is about to answer or has answered. A confirmed delete of
\* a session whose selected record is still in the sheet
\* gets the answer True from delete_status and the success reply, and removes
\* the record's row; a confirmed delete of a session whose selected record is
\* no longer in the sheet gets False and the failure reply; rows of other
\* records stay as they were. Rows leave the sheet only by these deletes, so
\* of two sessions confirming the same record, in either order, the first
\* gets the success reply and the second the failure reply.
C31_OneConfirmSucceeds ==
  [][\A s \in Pair :
       ( /\ admin_delete_confirm(s, "YA")
         /\ ~last'.raised
         /\ \E t \in Pair \ {s} :
              /\ conv[t] \in {"ADMIN_DELETE_CONFIRM", "ADMIN_MAIN_MENU"}
              /\ Has(user_data[t], "delete_selected")
              /\ user_data[t]["delete_selected"] = user_data[s]["delete_selected"] )
         => LET reply == last'.replies[1].text
                mine == SelectedRows(store, s)
                Other(i) == i \notin mine
                others == SelectSeq([i \in 1..Len(store) |-> IF Other(i) THEN store[i] ELSE <<>>],
                                    LAMBDA row : row # <<>>)
            IN /\ store' = others
               /\ IF mine # {}
                  THEN /\ last'.calls[1] = Call("delete_status", last'.calls[1].args, TRUE)
                       /\ Contains(reply, "Rekod berjaya dipadam dari pangkalan data.")
                  ELSE /\ last'.calls[1] = Call("delete_status", last'.calls[1].args, FALSE)
                       /\ reply = "Gagal memadam rekod. Sila cuba lagi."]_vars

====
